---- MODULE Spec2Model ----
(***************************************************************************)
(* devlog: a per-project development-session logger.                       *)
(*                                                                         *)
(* The model covers the session ledger (command/start.ts, command/stop.ts, *)
(* command/status.ts): the JSON-Lines session log as text, the replay that *)
(* derives the active session of a project, the duration label and the     *)
(* orphaned-session threshold read from the global settings document.      *)
(* It also covers the settings documents (command/config.ts,               *)
(* command/init.ts, utils/paths.ts): the global and the per-project        *)
(* settings.json as text, the coercion of a value given to config, and     *)
(* the defaults init writes.  The command line (main.ts) is modelled with  *)
(* its exit code and its two streams, and start and stop are also modelled *)
(* one file operation at a time, for invocations that overlap.             *)
(*                                                                         *)
(* Text is a sequence of tokens: a newline, a blank, a run of non-JSON     *)
(* characters, or the compact JSON text of one value.  A line is the run   *)
(* of tokens between two newlines, so two JSON texts that were written     *)
(* without a newline between them share one line, as they do in the file.  *)
(***************************************************************************)
EXTENDS Integers, Sequences, FiniteSets, TLC

----------------------------------------------------------------------------
(* Bounds of the exploration.                                              *)

\* most tokens the session log may hold before a command that appends is cut off
MaxLogTokens == 6
\* most tokens of the log found on disk when the first command runs (SpecEdited)
MaxInitTokens == 3
\* the clock is explored up to this instant (ms)
MaxNow == 14460000
\* a session found on disk began at most this many half minutes before or
\* after the first command (SpecDuration)
MaxHalfMinutes == 310
\* ... and, after each coarse step, up to this many ms of fine steps
MaxFine == 60000
\* most lines of a log kept over several sessions (SpecLedger)
MaxLedgerLines == 3
\* a session found on disk began at most this many half minutes before or
\* after the first command (SpecOrphan)
MaxAheadHalfMinutes == 12

----------------------------------------------------------------------------
(* Program constants.                                                      *)

\* 1000 * 60, the divisor of calculateDuration / calculateDurationMinutes
MsPerMinute == 60000
\* settings.orphanedSessionThreshold || 240
DefaultThreshold == 240
\* minutes per hour in calculateDuration and in the warning's hour figure
MinutesPerHour == 60

\* steps of the clock between and inside commands
HalfMinute == MsPerMinute \div 2
CoarseStep == DefaultThreshold * MsPerMinute
TickDeltas == {HalfMinute, CoarseStep}
ClockSkews == {0, HalfMinute}

\* the working directories the tool is invoked from
Projects == {"/a", "/b"}
\* the message argument of start and stop
Messages == {" ", " wip "}

----------------------------------------------------------------------------
(* JSON values.                                                            *)

JNull == [t |-> "null"]
JNum(n) == [t |-> "num", n |-> n]
JObj(f) == [t |-> "obj", f |-> f]

\* Date.prototype.toISOString: the instant as text with millisecond precision
toISOString(ms) == [iso |-> ms]

\* new Date(s).getTime() is a number only when s is an ISO instant
IsValidDate(s) == "iso" \in DOMAIN s

getTime(s) == s.iso

----------------------------------------------------------------------------
(* Text.                                                                   *)

NL == [k |-> "nl"]
SP == [k |-> "sp"]
Junk == [k |-> "junk"]

\* JSON.stringify(value): compact, one token, never a newline
JSONstringify(v) == [k |-> "json", v |-> v]

IsWhite(tok) == tok.k \in {"nl", "sp"}

RECURSIVE TrimStartText(_)
TrimStartText(s) ==
  IF s # <<>> /\ IsWhite(Head(s)) THEN TrimStartText(Tail(s)) ELSE s

RECURSIVE TrimEndText(_)
TrimEndText(s) ==
  IF s # <<>> /\ IsWhite(s[Len(s)]) THEN TrimEndText(SubSeq(s, 1, Len(s) - 1)) ELSE s

\* String.prototype.trim on file text
TrimText(s) == TrimEndText(TrimStartText(s))

\* String.prototype.split("\n"): always at least one (possibly empty) line
RECURSIVE SplitLines(_)
SplitLines(s) ==
  IF \E i \in 1..Len(s) : s[i] = NL
  THEN LET i == CHOOSE j \in 1..Len(s) : s[j] = NL /\ \A h \in 1..(j - 1) : s[h] # NL
       IN <<SubSeq(s, 1, i - 1)>> \o SplitLines(SubSeq(s, i + 1, Len(s)))
  ELSE <<s>>

\* lines.filter(line => line.trim())
RECURSIVE FilterNonBlank(_)
FilterNonBlank(ls) ==
  IF ls = <<>> THEN <<>>
  ELSE IF TrimText(Head(ls)) # <<>>
       THEN <<Head(ls)>> \o FilterNonBlank(Tail(ls))
       ELSE FilterNonBlank(Tail(ls))

\* content.trim().split("\n").filter(line => line.trim())
LogLines(content) == FilterNonBlank(SplitLines(TrimText(content)))

\* JSON.parse(line) succeeds when the line, blanks aside, is one JSON text
JSONparses(line) == Len(TrimText(line)) = 1 /\ TrimText(line)[1].k = "json"

JSONparse(line) == TrimText(line)[1].v

\* String.prototype.trim on a message
IsSpaceChar(c) == c \in {" ", "\t", "\n"}

RECURSIVE TrimStart(_)
TrimStart(s) ==
  IF Len(s) > 0 /\ IsSpaceChar(Head(s)) THEN TrimStart(SubSeq(s, 2, Len(s))) ELSE s

RECURSIVE TrimEnd(_)
TrimEnd(s) ==
  IF Len(s) > 0 /\ IsSpaceChar(SubSeq(s, Len(s), Len(s)))
  THEN TrimEnd(SubSeq(s, 1, Len(s) - 1)) ELSE s

Trim(s) == TrimEnd(TrimStart(s))

----------------------------------------------------------------------------
(* Log entries and the three copies of the replay.                         *)

\* interface LogEntry { timestamp, type, message, project }
LogEntry(ts, type, message, project) ==
  [timestamp |-> ts, type |-> type, message |-> message, project |-> project]

\* reading a property the parsed value does not have gives undefined
Undefined == [undef |-> TRUE]

Prop(v, key) ==
  IF v.t = "obj" /\ key \in DOMAIN v.f THEN v.f[key] ELSE Undefined

\* value[key] === expected, for a string expected; undefined equals no string
PropIs(v, key, expected) ==
  v.t = "obj" /\ key \in DOMAIN v.f /\ v.f[key] = expected

\* an exception in flight
Thrown == [t |-> "throw"]

\* mutant of StatusTryLine: a stop entry of any project clears the pending start
StatusTryLine_AnyStop(lastStart, line, currentProject) ==
  IF ~JSONparses(line) THEN Thrown
  ELSE LET entry == JSONparse(line) IN
       IF entry = JNull THEN Thrown
       ELSE IF PropIs(entry, "type", "stop") THEN JNull
       ELSE IF PropIs(entry, "project", currentProject) /\ PropIs(entry, "type", "start")
            THEN entry
            ELSE lastStart

\* mutant of StatusTryLine: a start entry becomes the pending start only
\* when no start is pending
StatusTryLine_FirstStartKept(lastStart, line, currentProject) ==
  IF ~JSONparses(line) THEN Thrown
  ELSE LET entry == JSONparse(line) IN
       IF entry = JNull THEN Thrown
       ELSE IF PropIs(entry, "project", currentProject)
            THEN IF PropIs(entry, "type", "start")
                 THEN IF lastStart = JNull THEN entry ELSE lastStart
                 ELSE IF PropIs(entry, "type", "stop") THEN JNull
                 ELSE lastStart
            ELSE lastStart

\* mutant of StatusTryLine: a start entry replaces the pending start only
\* when its timestamp is not earlier
StatusTryLine_NewerOnly(lastStart, line, currentProject) ==
  IF ~JSONparses(line) THEN Thrown
  ELSE LET entry == JSONparse(line) IN
       IF entry = JNull THEN Thrown
       ELSE IF PropIs(entry, "project", currentProject)
            THEN IF PropIs(entry, "type", "start")
                 THEN IF /\ lastStart # JNull
                         /\ IsValidDate(Prop(lastStart, "timestamp"))
                         /\ IsValidDate(Prop(entry, "timestamp"))
                         /\ getTime(Prop(entry, "timestamp")) < getTime(Prop(lastStart, "timestamp"))
                      THEN lastStart
                      ELSE entry
                 ELSE IF PropIs(entry, "type", "stop") THEN JNull
                 ELSE lastStart
            ELSE lastStart

\* the try block of the loop of StatusCommand.getActiveSession, for one line:
\* the new lastStart, or Thrown when JSON.parse or the property read throws
StatusTryLine(lastStart, line, currentProject) ==
  IF ~JSONparses(line) THEN Thrown
  ELSE LET entry == JSONparse(line) IN
       IF entry = JNull THEN Thrown
       ELSE IF PropIs(entry, "project", currentProject)
            THEN IF PropIs(entry, "type", "start") THEN entry
                 ELSE IF PropIs(entry, "type", "stop") THEN JNull
                 ELSE lastStart
            ELSE lastStart

\* mutant of StatusReplayStep: the loop body without its catch
StatusReplayStep_NoCatch(lastStart, line, currentProject) ==
  StatusTryLine(lastStart, line, currentProject)

\* try { ... } catch { /* Skip invalid JSON lines */ }
StatusReplayStep(lastStart, line, currentProject) ==
  LET tried == StatusTryLine(lastStart, line, currentProject) IN
  IF tried = Thrown THEN lastStart ELSE tried

\* for (const line of lines) { ... }; an exception would leave the loop
RECURSIVE StatusReplay(_, _, _)
StatusReplay(lastStart, lines, currentProject) ==
  IF lastStart = Thrown \/ lines = <<>> THEN lastStart
  ELSE StatusReplay(StatusReplayStep(lastStart, Head(lines), currentProject),
       Tail(lines), currentProject)

\* StatusCommand.getActiveSession
StatusGetActiveSession(file, currentProject) ==
  IF ~file.exists THEN JNull
  ELSE StatusReplay(JNull, LogLines(file.text), currentProject)

\* mutant of StartTryLine: a start entry of any project becomes the pending start
StartTryLine_AnyProject(lastStart, line, currentProject) ==
  IF ~JSONparses(line) THEN Thrown
  ELSE LET entry == JSONparse(line) IN
       IF entry = JNull THEN Thrown
       ELSE IF PropIs(entry, "type", "start") THEN entry
       ELSE IF PropIs(entry, "project", currentProject) /\ PropIs(entry, "type", "stop")
            THEN JNull
            ELSE lastStart

\* mutant of StartTryLine: a start entry does not become the pending start
StartTryLine_StartIgnored(lastStart, line, currentProject) ==
  IF ~JSONparses(line) THEN Thrown
  ELSE LET entry == JSONparse(line) IN
       IF entry = JNull THEN Thrown
       ELSE IF PropIs(entry, "project", currentProject) /\ PropIs(entry, "type", "stop")
            THEN JNull
            ELSE lastStart

\* the try block of the loop of StartCommand.getActiveSession, for one line:
\* the new lastStart, or Thrown when JSON.parse or the property read throws
StartTryLine(lastStart, line, currentProject) ==
  IF ~JSONparses(line) THEN Thrown
  ELSE LET entry == JSONparse(line) IN
       IF entry = JNull THEN Thrown
       ELSE IF PropIs(entry, "project", currentProject)
            THEN IF PropIs(entry, "type", "start") THEN entry
                 ELSE IF PropIs(entry, "type", "stop") THEN JNull
                 ELSE lastStart
            ELSE lastStart

\* try { ... } catch { /* Skip invalid JSON lines */ }
StartReplayStep(lastStart, line, currentProject) ==
  LET tried == StartTryLine(lastStart, line, currentProject) IN
  IF tried = Thrown THEN lastStart ELSE tried

\* for (const line of lines) { ... }; an exception would leave the loop
RECURSIVE StartReplay(_, _, _)
StartReplay(lastStart, lines, currentProject) ==
  IF lastStart = Thrown \/ lines = <<>> THEN lastStart
  ELSE StartReplay(StartReplayStep(lastStart, Head(lines), currentProject),
       Tail(lines), currentProject)

\* StartCommand.getActiveSession
StartGetActiveSession(file, currentProject) ==
  IF ~file.exists THEN JNull
  ELSE StartReplay(JNull, LogLines(file.text), currentProject)

\* mutant of StopTryLine: a stop entry does not clear the pending start
StopTryLine_StopIgnored(lastStart, line, currentProject) ==
  IF ~JSONparses(line) THEN Thrown
  ELSE LET entry == JSONparse(line) IN
       IF entry = JNull THEN Thrown
       ELSE IF PropIs(entry, "project", currentProject) /\ PropIs(entry, "type", "start")
            THEN entry
            ELSE lastStart

\* the try block of the loop of StopCommand.getActiveSession, for one line:
\* the new lastStart, or Thrown when JSON.parse or the property read throws
StopTryLine(lastStart, line, currentProject) ==
  IF ~JSONparses(line) THEN Thrown
  ELSE LET entry == JSONparse(line) IN
       IF entry = JNull THEN Thrown
       ELSE IF PropIs(entry, "project", currentProject)
            THEN IF PropIs(entry, "type", "start") THEN entry
                 ELSE IF PropIs(entry, "type", "stop") THEN JNull
                 ELSE lastStart
            ELSE lastStart

\* try { ... } catch { /* Skip invalid JSON lines */ }
StopReplayStep(lastStart, line, currentProject) ==
  LET tried == StopTryLine(lastStart, line, currentProject) IN
  IF tried = Thrown THEN lastStart ELSE tried

\* for (const line of lines) { ... }; an exception would leave the loop
RECURSIVE StopReplay(_, _, _)
StopReplay(lastStart, lines, currentProject) ==
  IF lastStart = Thrown \/ lines = <<>> THEN lastStart
  ELSE StopReplay(StopReplayStep(lastStart, Head(lines), currentProject),
       Tail(lines), currentProject)

\* StopCommand.getActiveSession
StopGetActiveSession(file, currentProject) ==
  IF ~file.exists THEN JNull
  ELSE StopReplay(JNull, LogLines(file.text), currentProject)

----------------------------------------------------------------------------
(* Durations.                                                              *)

\* the % of JavaScript: the remainder takes the sign of the dividend
JsRem(a, b) == IF a >= 0 THEN a % b ELSE -((-a) % b)

\* Math.floor(diffMs / (1000 * 60))
ElapsedMinutes(startMs, nowMs) == (nowMs - startMs) \div MsPerMinute

\* mutant of DurationLabel: a negative minute count is shown as 0
DurationLabel_Clamped(minutes) ==
  LET shown == IF minutes < 0 THEN 0 ELSE minutes
      hours == shown \div MinutesPerHour
  IN IF hours > 0
     THEN ToString(hours) \o "h " \o ToString(JsRem(shown, MinutesPerHour)) \o "m"
     ELSE ToString(shown) \o "m"

\* mutant of DurationLabel: past the first hour, the minutes left in the hour
DurationLabel_MinutesLeft(minutes) ==
  LET hours == minutes \div MinutesPerHour IN
  IF hours > 0
  THEN ToString(hours) \o "h "
         \o ToString(MinutesPerHour - 1 - JsRem(minutes, MinutesPerHour)) \o "m"
  ELSE ToString(minutes) \o "m"

\* the label for a minute count: `${hours}h ${minutes % 60}m` or `${minutes}m`
DurationLabel(minutes) ==
  LET hours == minutes \div MinutesPerHour IN
  IF hours > 0
  THEN ToString(hours) \o "h " \o ToString(JsRem(minutes, MinutesPerHour)) \o "m"
  ELSE ToString(minutes) \o "m"

\* calculateDuration (the same text in start.ts, stop.ts and status.ts);
\* an absent or unreadable timestamp is an Invalid Date and prints as NaN
calculateDuration(startTime, nowMs) ==
  IF IsValidDate(startTime)
  THEN DurationLabel(ElapsedMinutes(getTime(startTime), nowMs))
  ELSE "NaNm"

\* StatusCommand.calculateDurationMinutes, for a valid timestamp
calculateDurationMinutes(startTime, nowMs) ==
  ElapsedMinutes(getTime(startTime), nowMs)

\* `${activeSession.message}`
MessageText(entry) ==
  IF "message" \in DOMAIN entry.f THEN entry.f.message ELSE "undefined"

----------------------------------------------------------------------------
(* Settings read by status.                                                *)

\* StatusCommand.loadSettings: {} when the document is absent or does not parse
loadSettings(file) ==
  IF ~file.exists THEN JObj(<<>>)
  ELSE IF JSONparses(file.text) THEN JSONparse(file.text)
  ELSE JObj(<<>>)

\* mutant of IsFalsy: the number 0 is kept as a threshold
IsFalsy_ZeroKept(v) ==
  \/ v = Undefined
  \/ v = JNull
  \/ v = [t |-> "bool", b |-> FALSE]
  \/ v = [t |-> "str", s |-> ""]

\* a value that `||` replaces by its right operand
IsFalsy(v) ==
  \/ v = Undefined
  \/ v = JNull
  \/ v = JNum(0)
  \/ v = [t |-> "bool", b |-> FALSE]
  \/ v = [t |-> "str", s |-> ""]

\* settings.orphanedSessionThreshold || 240, for settings other than null
orphanedThresholdOf(settings) ==
  LET v == Prop(settings, "orphanedSessionThreshold") IN
  IF IsFalsy(v) THEN DefaultThreshold ELSE v.n

----------------------------------------------------------------------------
(* JSON values of every type, their text, and the coercion of config.      *)

JBool(b) == [t |-> "bool", b |-> b]
JStr(s) == [t |-> "str", s |-> s]
JArr(a) == [t |-> "arr", a |-> a]

\* a function object, the value of a property inherited from Object.prototype
JFunction == [t |-> "function"]

\* JSON.stringify(value, null, 2): the same value, laid out over several lines
JSONstringifyPretty(v) == [k |-> "json", v |-> v, indent |-> 2]

\* the compact JSON text of a value, as a template literal shows it.  An
\* object is written with its keys in insertion order; the objects given as
\* values here have one key at most.  A function has no JSON text and the
\* template shows undefined.
RECURSIVE JSONtext(_)
JSONtext(v) ==
  CASE v.t = "null" -> "null"
    [] v.t = "bool" -> IF v.b THEN "true" ELSE "false"
    [] v.t = "num" -> ToString(v.n)
    [] v.t = "str" -> "\"" \o v.s \o "\""
    [] v.t = "arr" ->
         LET RECURSIVE Items(_)
             Items(i) ==
               IF i > Len(v.a) THEN ""
               ELSE (IF i > 1 THEN "," ELSE "") \o JSONtext(v.a[i]) \o Items(i + 1)
         IN "[" \o Items(1) \o "]"
    [] v.t = "obj" ->
         IF DOMAIN v.f = {} THEN "{}"
         ELSE LET key == CHOOSE k \in DOMAIN v.f : DOMAIN v.f = {k}
              IN "{\"" \o key \o "\":" \o JSONtext(v.f[key]) \o "}"
    [] v.t = "function" -> "undefined"

\* Not-a-Number
NaN == [t |-> "nan"]

Digits == "0123456789"

IsDigit(c) == \E i \in 1..Len(Digits) : SubSeq(Digits, i, i) = c

DigitValue(c) == (CHOOSE i \in 1..Len(Digits) : SubSeq(Digits, i, i) = c) - 1

RECURSIVE AllDigits(_)
AllDigits(s) ==
  Len(s) = 0 \/ (IsDigit(SubSeq(s, 1, 1)) /\ AllDigits(SubSeq(s, 2, Len(s))))

RECURSIVE DigitsValue(_)
DigitsValue(s) ==
  IF Len(s) = 0 THEN 0
  ELSE 10 * DigitsValue(SubSeq(s, 1, Len(s) - 1)) + DigitValue(SubSeq(s, Len(s), Len(s)))

\* Number(value) for a string: blanks around it are dropped, the empty string
\* is 0, a signed run of decimal digits is its value, other text is NaN
\* (fractions, exponents, radix prefixes and Infinity are not among the
\* values explored)
Number(value) ==
  LET s == Trim(value)
      sign == IF Len(s) > 0 THEN SubSeq(s, 1, 1) ELSE ""
      body == IF sign \in {"-", "+"} THEN SubSeq(s, 2, Len(s)) ELSE s
  IN IF Len(s) = 0 THEN JNum(0)
     ELSE IF Len(body) > 0 /\ AllDigits(body)
     THEN JNum(IF sign = "-" THEN 0 - DigitsValue(body) ELSE DigitsValue(body))
     ELSE NaN

\* value.startsWith(prefix), for a prefix of one character
startsWith(value, prefix) == Len(value) > 0 /\ SubSeq(value, 1, 1) = prefix

\* JSON.parse(value) on the bracketed values explored; other text throws
JSONparseValue(value) ==
  CASE value = "[1]" -> JArr(<<JNum(1)>>)
    [] value = "{\"a\":1}" -> JObj([a |-> JNum(1)])
    [] OTHER -> Thrown

\* mutant of parsedValueOf: blank text is not taken for the number 0
parsedValueOf_BlankIsText(value) ==
  IF value = "true" THEN JBool(TRUE)
  ELSE IF value = "false" THEN JBool(FALSE)
  ELSE IF value = "null" THEN JNull
  ELSE IF Len(Trim(value)) > 0 /\ Number(value) # NaN THEN Number(value)
  ELSE IF startsWith(value, "[") \/ startsWith(value, "{")
  THEN IF JSONparseValue(value) = Thrown THEN JStr(value) ELSE JSONparseValue(value)
  ELSE JStr(value)

\* ConfigCommand.setValue, "Parse value": the ladder, first match wins
parsedValueOf(value) ==
  IF value = "true" THEN JBool(TRUE)
  ELSE IF value = "false" THEN JBool(FALSE)
  ELSE IF value = "null" THEN JNull
  ELSE IF Number(value) # NaN THEN Number(value)
  ELSE IF startsWith(value, "[") \/ startsWith(value, "{")
  THEN IF JSONparseValue(value) = Thrown THEN JStr(value) ELSE JSONparseValue(value)
  ELSE JStr(value)

\* a value that has properties: `key in value` and `value[key] = ...` throw
\* a TypeError on null and on a number, a string or a boolean
IsObjectValue(v) == v.t \in {"obj", "arr"}

\* the property names every object inherits from Object.prototype, as far
\* as the keys explored go
InheritedKeys == {"constructor"}

OwnKeys(v) == IF v.t = "obj" THEN DOMAIN v.f ELSE {}

\* key in settings
HasProperty(v, key) == key \in OwnKeys(v) \/ key \in InheritedKeys

\* settings[key], for a key that is in settings
GetProperty(v, key) == IF key \in OwnKeys(v) THEN v.f[key] ELSE JFunction

\* settings[key] = parsedValue on an object; on an array the property is set
\* but is no element, and JSON.stringify leaves it out
SetProperty(v, key, value) ==
  IF v.t = "obj"
  THEN JObj([k \in DOMAIN v.f \cup {key} |-> IF k = key THEN value ELSE v.f[k]])
  ELSE v

----------------------------------------------------------------------------
(* State.                                                                  *)

VARIABLES
  sessions,        \* paths.sessions: [exists, text], the session log
  globalSettings,  \* paths.globalSettings: [exists, text]
  projectSettings, \* paths.projectSettings of each working directory: [exists, text]
  dirs,            \* the directories that exist
  now,             \* the wall clock, in ms
  last,            \* the last invocation: command, directory, message, result
  proc,            \* the last process: its exit code and what it printed
  running          \* the invocations in flight: where each stands, what it holds

vars == <<sessions, globalSettings, projectSettings, dirs, now, last, proc, running>>

NoFile == [exists |-> FALSE, text |-> <<>>]
File(text) == [exists |-> TRUE, text |-> text]

\* paths.globalDir
GlobalDir == "~/.devlog"

\* the result of an invocation: the lines of the returned string, or a throw
Returned(cmd, dir, message, out) ==
  [cmd |-> cmd, dir |-> dir, message |-> message, args |-> <<>>,
   out |-> out, threw |-> FALSE]

Threw(cmd, dir, message) ==
  [cmd |-> cmd, dir |-> dir, message |-> message, args |-> <<>>,
   out |-> <<>>, threw |-> TRUE]

\* the same for config, whose arguments are a list
ConfigReturned(dir, args, out) ==
  [cmd |-> "config", dir |-> dir, message |-> "", args |-> args,
   out |-> out, threw |-> FALSE]

ConfigThrew(dir, args) ==
  [cmd |-> "config", dir |-> dir, message |-> "", args |-> args,
   out |-> <<>>, threw |-> TRUE]

NoInvocation == Returned("none", "", "", <<>>)

\* the invocations that may be in flight together
Pids == {1, 2}

\* an invocation that has not begun: nothing read, nothing to write
Idle ==
  [ pc |-> "idle", cmd |-> "none", dir |-> "", message |-> "",
    activeSession |-> JNull, logEntry |-> JNull, existingContent |-> <<>>,
    result |-> NoInvocation ]

\* what a process leaves behind: its exit code and the lines it wrote to
\* the output stream and to the error stream
Process(exit, stdout, stderr) == [exit |-> exit, stdout |-> stdout, stderr |-> stderr]

NoProcess == Process(0, <<>>, <<>>)

\* the end of main for a command that was executed: console.log(result) and
\* exit code 0, or the catch block, console.error and Deno.exit(1)
Printed(result) ==
  IF result.threw
  THEN Process(1, <<>>, <<"Error: " \o result.cmd \o " failed">>)
  ELSE Process(0, result.out, <<>>)

\* a command run from its first line to its return with no other invocation
\* in flight: main prints its result and the process ends
Ends ==
  /\ proc' = Printed(last')
  /\ UNCHANGED running

\* the instants the exploration allows the clock to show
ClockOK(t) == t <= MaxNow /\ t % CoarseStep <= MaxFine

----------------------------------------------------------------------------
(* The global settings documents and the logs found on disk.               *)

GlobalSettingsFiles ==
  { NoFile,
    File(<<Junk>>),
    File(<<JSONstringify(JObj(<<>>))>>),
    File(<<JSONstringify(JObj([orphanedSessionThreshold |-> JNum(1)]))>>) }

\* the tokens of a log that was edited by hand
EditedTokens ==
  { NL, SP, Junk }
  \cup { JSONstringify(JObj(LogEntry(toISOString(0), type, "old", project))) :
           type \in {"start", "stop"}, project \in Projects }

RECURSIVE TextsUpTo(_, _)
TextsUpTo(tokens, n) ==
  IF n = 0 THEN { <<>> }
  ELSE LET shorter == TextsUpTo(tokens, n - 1) IN
       shorter \cup { Append(s, tok) : s \in shorter, tok \in tokens }

----------------------------------------------------------------------------
(* Commands.                                                               *)

\* mutant of MessageMissing: if (!message), without the trim
MessageMissing_NoTrim(message) == message = ""

\* if (!message.trim())
MessageMissing(message) == Trim(message) = ""

\* mutant of StartLogEntry: the message is logged as it was typed
StartLogEntry_Untrimmed(message, currentDir, nowMs) ==
  LogEntry(toISOString(nowMs), "start", message, currentDir)

\* const logEntry = { timestamp, type: "start", message: message.trim(), project }
StartLogEntry(message, currentDir, nowMs) ==
  LogEntry(toISOString(nowMs), "start", Trim(message), currentDir)

\* mutant of StopLogEntry: the entry is written with the type of a start
StopLogEntry_TypeStart(message, currentDir, nowMs) ==
  LogEntry(toISOString(nowMs), "start", Trim(message), currentDir)

\* const logEntry = { timestamp, type: "stop", message: message.trim(), project }
StopLogEntry(message, currentDir, nowMs) ==
  LogEntry(toISOString(nowMs), "stop", Trim(message), currentDir)

\* mutant of AppendLine: the existing content is trimmed before the append
AppendLine_Trimmed(existingContent, logEntry) ==
  TrimText(existingContent) \o <<JSONstringify(JObj(logEntry)), NL>>

\* mutant of AppendLine: the entry is written without its newline
AppendLine_NoNewline(existingContent, logEntry) ==
  existingContent \o <<JSONstringify(JObj(logEntry))>>

\* existingContent + JSON.stringify(logEntry) + "\n"
AppendLine(existingContent, logEntry) ==
  existingContent \o <<JSONstringify(JObj(logEntry)), NL>>

\* mutant of StartRejectedText: the warning quotes the project, not the message
StartRejectedText_Project(activeSession, nowMs) ==
  << "Warning: Active session already exists for this project.",
     "Current session: \"" \o Prop(activeSession, "project") \o "\" (started "
       \o calculateDuration(Prop(activeSession, "timestamp"), nowMs) \o " ago)" >>

\* the text start returns when the project is active
StartRejectedText(activeSession, nowMs) ==
  << "Warning: Active session already exists for this project.",
     "Current session: \"" \o MessageText(activeSession) \o "\" (started "
       \o calculateDuration(Prop(activeSession, "timestamp"), nowMs) \o " ago)" >>

\* StartCommand.execute
Start(currentDir, message) ==
  IF MessageMissing(message)
  THEN /\ last' = Returned("start", currentDir, message,
                           <<"Error: Message is required for start command">>)
       /\ UNCHANGED <<sessions, globalSettings, projectSettings, dirs, now>>
  ELSE LET activeSession == StartGetActiveSession(sessions, currentDir) IN
       IF activeSession = Thrown
       THEN /\ last' = Threw("start", currentDir, message)
            /\ UNCHANGED <<sessions, globalSettings, projectSettings, dirs, now>>
       ELSE IF activeSession # JNull
       THEN /\ last' = Returned("start", currentDir, message,
                                StartRejectedText(activeSession, now))
            /\ UNCHANGED <<sessions, globalSettings, projectSettings, dirs, now>>
       ELSE LET logEntry == StartLogEntry(message, currentDir, now)
                existingContent == IF sessions.exists THEN sessions.text ELSE <<>>
            IN /\ Len(existingContent) + 2 <= MaxLogTokens
               /\ dirs' = dirs \cup {GlobalDir}
               /\ sessions' = File(AppendLine(existingContent, logEntry))
               /\ last' = Returned("start", currentDir, message,
                                   <<"Started session: \"" \o message \o "\"">>)
               /\ UNCHANGED <<globalSettings, projectSettings, now>>

\* StopCommand.execute; the clock may advance by skew between the entry's
\* timestamp and the reading that calculateDuration takes
Stop(currentDir, message, skew) ==
  IF MessageMissing(message)
  THEN /\ skew = 0
       /\ last' = Returned("stop", currentDir, message,
                           <<"Error: Message is required for stop command">>)
       /\ UNCHANGED <<sessions, globalSettings, projectSettings, dirs, now>>
  ELSE LET activeSession == StopGetActiveSession(sessions, currentDir) IN
       IF activeSession = Thrown
       THEN /\ skew = 0
            /\ last' = Threw("stop", currentDir, message)
            /\ UNCHANGED <<sessions, globalSettings, projectSettings, dirs, now>>
       ELSE IF activeSession = JNull
       THEN /\ skew = 0
            /\ last' = Returned("stop", currentDir, message, <<"No active session to stop">>)
            /\ UNCHANGED <<sessions, globalSettings, projectSettings, dirs, now>>
       ELSE LET logEntry == StopLogEntry(message, currentDir, now)
                existingContent == sessions.text
            IN /\ Len(existingContent) + 2 <= MaxLogTokens
               /\ ClockOK(now + skew)
               /\ sessions' = File(AppendLine(existingContent, logEntry))
               /\ now' = now + skew
               /\ last' = Returned("stop", currentDir, message,
                    <<"Stopped session: \"" \o message \o "\" (duration: "
                        \o calculateDuration(Prop(activeSession, "timestamp"), now + skew)
                        \o ")">>)
               /\ UNCHANGED <<globalSettings, projectSettings, dirs>>

\* the three lines of the base report of status
StatusReport(activeSession, currentDir, duration) ==
  << "Active session: \"" \o MessageText(activeSession) \o "\"",
     "Duration: " \o duration,
     "Project: " \o currentDir >>

\* mutant of StatusWarning: the hour figure is rounded to the nearest hour
StatusWarning_Rounded(duration, orphanedThreshold) ==
  "(!)  Warning: Session has been active for " \o duration \o " (>"
    \o ToString((orphanedThreshold + MinutesPerHour \div 2) \div MinutesPerHour) \o "h threshold)"

\* the warning line; the warning-sign glyph that opens it is written (!)
StatusWarning(duration, orphanedThreshold) ==
  "(!)  Warning: Session has been active for " \o duration \o " (>"
    \o ToString(orphanedThreshold \div MinutesPerHour) \o "h threshold)"

\* mutant of IsOrphaned: the warning starts at the threshold itself
IsOrphaned_AtThreshold(startTime, nowMs, orphanedThreshold) ==
  /\ IsValidDate(startTime)
  /\ calculateDurationMinutes(startTime, nowMs) >= orphanedThreshold

\* mutant of IsOrphaned: the distance from the start is compared, whether
\* the start lies behind or ahead
IsOrphaned_Distance(startTime, nowMs, orphanedThreshold) ==
  /\ IsValidDate(startTime)
  /\ LET minutes == calculateDurationMinutes(startTime, nowMs) IN
     (IF minutes < 0 THEN 0 - minutes ELSE minutes) > orphanedThreshold

\* durationMinutes > orphanedThreshold; NaN is greater than nothing
IsOrphaned(startTime, nowMs, orphanedThreshold) ==
  /\ IsValidDate(startTime)
  /\ calculateDurationMinutes(startTime, nowMs) > orphanedThreshold

\* StatusCommand.execute; the clock may advance by skew between the reading
\* of calculateDuration and the reading of calculateDurationMinutes
Status(currentDir, skew) ==
  LET settings == loadSettings(globalSettings) IN
  IF settings = JNull
  THEN /\ skew = 0
       /\ last' = Threw("status", currentDir, "")
       /\ UNCHANGED <<sessions, globalSettings, projectSettings, dirs, now>>
  ELSE LET orphanedThreshold == orphanedThresholdOf(settings)
           activeSession == StatusGetActiveSession(sessions, currentDir)
       IN IF activeSession = Thrown
          THEN /\ skew = 0
               /\ last' = Threw("status", currentDir, "")
               /\ UNCHANGED <<sessions, globalSettings, projectSettings, dirs, now>>
          ELSE IF activeSession = JNull
          THEN /\ skew = 0
               /\ last' = Returned("status", currentDir, "", <<"No active session">>)
               /\ UNCHANGED <<sessions, globalSettings, projectSettings, dirs, now>>
          ELSE LET startTime == Prop(activeSession, "timestamp")
                   duration == calculateDuration(startTime, now)
                   result == StatusReport(activeSession, currentDir, duration)
               IN /\ ClockOK(now + skew)
                  /\ now' = now + skew
                  /\ last' = Returned("status", currentDir, "",
                       IF IsOrphaned(startTime, now + skew, orphanedThreshold)
                       THEN Append(result, StatusWarning(duration, orphanedThreshold))
                       ELSE result)
                  /\ UNCHANGED <<sessions, globalSettings, projectSettings, dirs>>

\* time passes between invocations
Tick(delta) ==
  /\ ClockOK(now + delta)
  /\ now' = now + delta
  /\ UNCHANGED <<sessions, globalSettings, projectSettings, dirs, last, proc, running>>

----------------------------------------------------------------------------
(* Paths, the settings documents, config and init.                         *)

\* the resolved home directory
HomeDir == "~"

\* join(dir, name) of jsr:@std/path, for a plain name
join(dir, name) == dir \o "/" \o name

\* createPathConfig(currentDir)
createPathConfig(currentDir) ==
  LET globalDir == join(HomeDir, ".devlog")
      projectDir == join(currentDir, ".devlog")
  IN [ globalDir |-> globalDir,
       projectDir |-> projectDir,
       globalSettings |-> join(globalDir, "settings.json"),
       projectSettings |-> join(projectDir, "settings.json"),
       sessions |-> join(globalDir, "sessions.jsonl") ]

\* dirname(settingsPath) of a settings document
dirname(settingsPath) == SubSeq(settingsPath, 1, Len(settingsPath) - Len("/settings.json"))

\* the document stored at a settings path: the project path of the home
\* directory is the global path, so the two name one file there
SettingsAt(path) ==
  IF path = createPathConfig(HomeDir).globalSettings THEN globalSettings
  ELSE IF \E dir \in DOMAIN projectSettings : createPathConfig(dir).projectSettings = path
  THEN projectSettings[CHOOSE dir \in DOMAIN projectSettings :
                         createPathConfig(dir).projectSettings = path]
  ELSE NoFile

\* fileOps.writeTextFile(path, text) on a settings path
WriteSettings(path, text) ==
  /\ globalSettings' =
       IF path = createPathConfig(HomeDir).globalSettings THEN File(text) ELSE globalSettings
  /\ projectSettings' =
       [dir \in DOMAIN projectSettings |->
          IF createPathConfig(dir).projectSettings = path THEN File(text)
          ELSE projectSettings[dir]]

\* ConfigCommand.getValue on the document at settingsPath
getValue(file, key) ==
  IF ~file.exists THEN "Setting '" \o key \o "' not found"
  ELSE IF ~JSONparses(file.text) THEN "Error reading settings file"
  ELSE LET settings == JSONparse(file.text) IN
       IF ~IsObjectValue(settings) THEN "Error reading settings file"
       ELSE IF ~HasProperty(settings, key) THEN "Setting '" \o key \o "' not found"
       ELSE key \o ": " \o JSONtext(GetProperty(settings, key))

\* mutant of loadExisting: the parse failure of a corrupt document is not
\* caught, so no settings object is there to take the key
loadExisting_NoCatch(file) ==
  IF ~file.exists THEN JObj(<<>>)
  ELSE IF JSONparses(file.text) THEN JSONparse(file.text)
  ELSE JNull

\* setValue, "Load existing settings": {} when absent or corrupt
loadExisting(file) ==
  IF file.exists /\ JSONparses(file.text) THEN JSONparse(file.text) ELSE JObj(<<>>)

\* ConfigCommand.setValue
setValue(currentDir, args, settingsPath, key, value, isProjectSettings) ==
  LET settings == loadExisting(SettingsAt(settingsPath))
      parsedValue == parsedValueOf(value)
      settingsType == IF isProjectSettings THEN "project" ELSE "global"
  IN /\ dirs' = dirs \cup {dirname(settingsPath)}
     /\ IF ~IsObjectValue(settings)
        THEN /\ last' = ConfigThrew(currentDir, args)
             /\ UNCHANGED <<globalSettings, projectSettings>>
        ELSE /\ WriteSettings(settingsPath,
                              <<JSONstringifyPretty(SetProperty(settings, key, parsedValue))>>)
             /\ last' = ConfigReturned(currentDir, args,
                  <<"Set " \o settingsType \o " setting " \o key \o ": "
                      \o JSONtext(parsedValue)>>)
     /\ UNCHANGED <<sessions, now>>

\* mutant of SettingsPathForGet: the global document is consulted when the
\* project document exists and lacks the key
SettingsPathForGet_PerKey(paths, key) ==
  IF /\ SettingsAt(paths.projectSettings).exists
     /\ getValue(SettingsAt(paths.projectSettings), key) # "Setting '" \o key \o "' not found"
  THEN paths.projectSettings
  ELSE paths.globalSettings

\* useProjectSettings ? paths.projectSettings : paths.globalSettings
SettingsPathForGet(paths, key) ==
  IF SettingsAt(paths.projectSettings).exists
  THEN paths.projectSettings
  ELSE paths.globalSettings

\* ConfigCommand.execute(args, paths)
ConfigCommand(currentDir, args) ==
  LET paths == createPathConfig(currentDir) IN
  IF Len(args) = 0
  THEN /\ last' = ConfigReturned(currentDir, args, <<"Usage: devlog config <key> [value]">>)
       /\ UNCHANGED <<sessions, globalSettings, projectSettings, dirs, now>>
  ELSE IF Len(args) = 1
  THEN /\ last' = ConfigReturned(currentDir, args,
                    <<getValue(SettingsAt(SettingsPathForGet(paths, args[1])), args[1])>>)
       /\ UNCHANGED <<sessions, globalSettings, projectSettings, dirs, now>>
  ELSE setValue(currentDir, args, paths.projectSettings, args[1], args[2], TRUE)

\* settingsPath.includes(part)
includes(text, part) ==
  \E i \in 1..(Len(text) - Len(part) + 1) : SubSeq(text, i, i + Len(part) - 1) = part

\* the label of the message of the earlier setValue, derived from the path
settingsTypeOf(settingsPath) ==
  IF includes(settingsPath, "/.devlog/settings.json") THEN "project" ELSE "global"

\* ConfigCommand.setValue(settingsPath, key, value) of the earlier config
\* command, which takes no label from its caller
setValueAt(currentDir, args, settingsPath, key, value) ==
  LET settings == loadExisting(SettingsAt(settingsPath))
      parsedValue == parsedValueOf(value)
  IN /\ dirs' = dirs \cup {dirname(settingsPath)}
     /\ IF ~IsObjectValue(settings)
        THEN /\ last' = ConfigThrew(currentDir, args)
             /\ UNCHANGED <<globalSettings, projectSettings>>
        ELSE /\ WriteSettings(settingsPath,
                              <<JSONstringifyPretty(SetProperty(settings, key, parsedValue))>>)
             /\ last' = ConfigReturned(currentDir, args,
                  <<"Set " \o settingsTypeOf(settingsPath) \o " setting " \o key \o ": "
                      \o JSONtext(parsedValue)>>)
     /\ UNCHANGED <<sessions, now>>

\* useProjectSettings ? projectSettingsPath : globalSettingsPath of the
\* earlier config command, which reads and writes the one path
settingsPathOf(currentDir, homeDir) ==
  LET globalSettingsPath == join(join(homeDir, ".devlog"), "settings.json")
      projectSettingsPath == join(join(currentDir, ".devlog"), "settings.json")
  IN IF SettingsAt(projectSettingsPath).exists THEN projectSettingsPath
     ELSE globalSettingsPath

\* ConfigCommand.execute(args, currentDir, homeDir) of the earlier config
\* command, the one main calls with two arguments
ConfigExecute(args, currentDir, homeDir) ==
  LET settingsPath == settingsPathOf(currentDir, homeDir) IN
  IF Len(args) = 0
  THEN /\ last' = ConfigReturned(currentDir, args, <<"Usage: devlog config <key> [value]">>)
       /\ UNCHANGED <<sessions, globalSettings, projectSettings, dirs, now>>
  ELSE IF Len(args) = 1
  THEN /\ last' = ConfigReturned(currentDir, args, <<getValue(SettingsAt(settingsPath), args[1])>>)
       /\ UNCHANGED <<sessions, globalSettings, projectSettings, dirs, now>>
  ELSE setValueAt(currentDir, args, settingsPath, args[1], args[2])

\* orphanedSessionThreshold of the default project settings
InitThreshold == 180

\* const defaultSettings: ProjectSettings = { ... }
defaultSettings ==
  JObj([ projectName |-> JNull,
         orphanedSessionThreshold |-> JNum(InitThreshold),
         autoCommitSuggestions |-> JBool(TRUE),
         excludePatterns |-> JArr(<<JStr("node_modules"), JStr(".git")>>) ])

\* mutant of AlreadyInitialized: the check is missing
AlreadyInitialized_Never(paths) == FALSE

\* await this.fileOps.exists(paths.projectSettings)
AlreadyInitialized(paths) == SettingsAt(paths.projectSettings).exists

\* InitCommand.execute(paths)
InitCommand(currentDir) ==
  LET paths == createPathConfig(currentDir) IN
  IF AlreadyInitialized(paths)
  THEN /\ last' = Returned("init", currentDir, "", <<"Already initialized">>)
       /\ UNCHANGED <<sessions, globalSettings, projectSettings, dirs, now>>
  ELSE /\ dirs' = dirs \cup {paths.projectDir}
       /\ WriteSettings(paths.projectSettings, <<JSONstringifyPretty(defaultSettings)>>)
       /\ last' = Returned("init", currentDir, "",
                           <<"Project initialized with default settings in .devlog/settings.json">>)
       /\ UNCHANGED <<sessions, now>>

----------------------------------------------------------------------------
(* The command line.                                                       *)

\* showUsage(): the help text, by its first line
UsageText == <<"DevLog CLI - Development Session Logger">>

\* args.slice(1).join(" ")
RECURSIVE JoinArgs(_)
JoinArgs(words) ==
  IF Len(words) = 0 THEN ""
  ELSE IF Len(words) = 1 THEN words[1]
  ELSE words[1] \o " " \o JoinArgs(Tail(words))

\* no command was executed by the process
NotExecuted(currentDir) == Returned("none", currentDir, "", <<>>)

\* main prints and leaves without executing a command
Leave(currentDir, exit, stdout, stderr) ==
  /\ proc' = Process(exit, stdout, stderr)
  /\ last' = NotExecuted(currentDir)
  /\ UNCHANGED <<sessions, globalSettings, projectSettings, dirs, now, running>>

\* if (args.length < 2), for start, stop and config
ArgumentMissing(args) == Len(args) < 2

\* main(), for the arguments and the working directory of the process; skew
\* is the time that passes between the two readings of the clock in stop and
\* status
main(args, currentDir, skew) ==
  IF Len(args) = 0 THEN skew = 0 /\ Leave(currentDir, 1, UsageText, <<>>)
  ELSE LET command == args[1] IN
       CASE command = "start" ->
              IF ArgumentMissing(args)
              THEN skew = 0 /\ Leave(currentDir, 1, <<>>,
                                     <<"Error: Message is required for start command",
                                       "Usage: devlog start <message>">>)
              ELSE /\ skew = 0
                   /\ Start(currentDir, JoinArgs(Tail(args)))
                   /\ Ends
         [] command = "stop" ->
              IF ArgumentMissing(args)
              THEN skew = 0 /\ Leave(currentDir, 1, <<>>,
                                     <<"Error: Message is required for stop command",
                                       "Usage: devlog stop <message>">>)
              ELSE /\ Stop(currentDir, JoinArgs(Tail(args)), skew)
                   /\ Ends
         [] command = "status" ->
              /\ Status(currentDir, skew)
              /\ Ends
         [] command = "init" ->
              /\ skew = 0
              /\ InitCommand(currentDir)
              /\ Ends
         [] command = "config" ->
              IF ArgumentMissing(args)
              THEN skew = 0 /\ Leave(currentDir, 1, <<>>,
                                     <<"Error: Key is required for config command",
                                       "Usage: devlog config <key> [value]">>)
              ELSE /\ skew = 0
                   /\ ConfigCommand(currentDir, Tail(args))
                   /\ Ends
         [] command \in {"help", "--help", "-h"} ->
              skew = 0 /\ Leave(currentDir, 0, UsageText, <<>>)
         [] OTHER ->
              skew = 0 /\ Leave(currentDir, 1, <<>>,
                                <<"Error: Unknown command '" \o command \o "'",
                                  "Run 'devlog help' for usage information">>)

----------------------------------------------------------------------------
(* Invocations that overlap: start and stop, one file operation at a time. *)

\* mutant of writeTextFile: the text is added to what the file holds
writeTextFile_Append(file, content) == File(file.text \o content)

\* Deno.writeTextFile(path, content): the file holds content and nothing else
writeTextFile(file, content) == File(content)

\* the invocation returns; main prints the result and the process ends
Return(p, self, result) ==
  /\ running' = [running EXCEPT ![p] = [self EXCEPT !.pc = "done", !.result = result]]
  /\ last' = result
  /\ proc' = Printed(result)

\* the invocation goes on to its next file operation
Goto(p, self, pc) ==
  /\ running' = [running EXCEPT ![p] = [self EXCEPT !.pc = pc]]
  /\ UNCHANGED <<last, proc>>

\* the lines that follow getActiveSession in execute, up to the next file
\* operation: the early return, or the log entry stamped with the clock
AfterReplay(p, self, activeSession) ==
  IF self.cmd = "start"
  THEN IF activeSession # JNull
       THEN Return(p, self, Returned("start", self.dir, self.message,
                                     StartRejectedText(activeSession, now)))
       ELSE Goto(p, [self EXCEPT !.logEntry = StartLogEntry(self.message, self.dir, now)],
                 "ensureDir")
  ELSE IF activeSession = JNull
       THEN Return(p, self, Returned("stop", self.dir, self.message,
                                     <<"No active session to stop">>))
       ELSE Goto(p, [self EXCEPT !.activeSession = activeSession,
                                 !.logEntry = StopLogEntry(self.message, self.dir, now)],
                 "read")

\* execute(message, currentDir) from its first line to the end of its first
\* file operation, fileOps.exists(sessionLogPath) in getActiveSession
Invoke(p, cmd, currentDir, message) ==
  /\ running[p].pc = "idle"
  /\ LET self == [Idle EXCEPT !.cmd = cmd, !.dir = currentDir, !.message = message] IN
     IF MessageMissing(message)
     THEN Return(p, self, Returned(cmd, currentDir, message,
                   <<"Error: Message is required for " \o cmd \o " command">>))
     ELSE IF sessions.exists
     THEN Goto(p, self, "replay")
     ELSE AfterReplay(p, self, JNull)
  /\ UNCHANGED <<sessions, globalSettings, projectSettings, dirs, now>>

\* fileOps.readTextFile(sessionLogPath) in getActiveSession, and the replay
ReadReplay(p) ==
  /\ running[p].pc = "replay"
  /\ LET self == running[p]
         lines == LogLines(sessions.text)
     IN AfterReplay(p, self,
                    IF self.cmd = "start" THEN StartReplay(JNull, lines, self.dir)
                    ELSE StopReplay(JNull, lines, self.dir))
  /\ UNCHANGED <<sessions, globalSettings, projectSettings, dirs, now>>

\* mutant of EnsureDir: start goes on to the append without the directory
EnsureDir_Skipped(p) ==
  /\ running[p].pc = "ensureDir"
  /\ Goto(p, running[p], "exists")
  /\ UNCHANGED <<sessions, globalSettings, projectSettings, dirs, now>>

\* fileOps.ensureDir(paths.globalDir), in start
EnsureDir(p) ==
  /\ running[p].pc = "ensureDir"
  /\ dirs' = dirs \cup {GlobalDir}
  /\ Goto(p, running[p], "exists")
  /\ UNCHANGED <<sessions, globalSettings, projectSettings, now>>

\* fileOps.exists(paths.sessions) before the append, in start
ExistsForAppend(p) ==
  /\ running[p].pc = "exists"
  /\ Goto(p, running[p], IF sessions.exists THEN "read" ELSE "write")
  /\ UNCHANGED <<sessions, globalSettings, projectSettings, dirs, now>>

\* existingContent = fileOps.readTextFile(paths.sessions)
ReadForAppend(p) ==
  /\ running[p].pc = "read"
  /\ Goto(p, [running[p] EXCEPT !.existingContent = sessions.text], "write")
  /\ UNCHANGED <<sessions, globalSettings, projectSettings, dirs, now>>

\* fileOps.writeTextFile(paths.sessions, existingContent + logLine) and the
\* return of execute
Write(p) ==
  /\ running[p].pc = "write"
  /\ LET self == running[p] IN
     /\ Len(self.existingContent) + 2 <= MaxLogTokens
     /\ sessions' = writeTextFile(sessions, AppendLine(self.existingContent, self.logEntry))
     /\ Return(p, self,
               Returned(self.cmd, self.dir, self.message,
                 IF self.cmd = "start"
                 THEN <<"Started session: \"" \o self.message \o "\"">>
                 ELSE <<"Stopped session: \"" \o self.message \o "\" (duration: "
                          \o calculateDuration(Prop(self.activeSession, "timestamp"), now)
                          \o ")">>))
  /\ UNCHANGED <<globalSettings, projectSettings, dirs, now>>

----------------------------------------------------------------------------
(* Specifications.                                                         *)

\* a fresh machine: no session log (or an empty one), any global settings
Init ==
  /\ sessions \in {NoFile, File(<<>>)}
  /\ globalSettings \in GlobalSettingsFiles
  /\ projectSettings = [dir \in Projects |-> NoFile]
  /\ dirs = IF sessions.exists \/ globalSettings.exists THEN {GlobalDir} ELSE {}
  /\ now = 0
  /\ last = NoInvocation
  /\ proc = NoProcess
  /\ running = [p \in Pids |-> Idle]

\* a machine whose session log was written or edited by other hands, its
\* entries stamped four hours and half a minute ago
InitEdited ==
  /\ sessions \in {NoFile} \cup { File(text) : text \in TextsUpTo(EditedTokens, MaxInitTokens) }
  /\ globalSettings = NoFile
  /\ projectSettings = [dir \in Projects |-> NoFile]
  /\ dirs = IF sessions.exists THEN {GlobalDir} ELSE {}
  /\ now = CoarseStep + HalfMinute
  /\ last = NoInvocation
  /\ proc = NoProcess
  /\ running = [p \in Pids |-> Idle]

\* the settings documents found on disk: absent, corrupt, JSON that is not an
\* object, and objects with and without the threshold, one of them with two
\* keys
SettingsDocs ==
  { NoFile, File(<<Junk>>) }
  \cup { File(<<JSONstringify(v)>>) :
           v \in { JNull, JNum(5), JArr(<<>>), JObj(<<>>),
                   JObj([orphanedSessionThreshold |-> JNum(1)]),
                   JObj([orphanedSessionThreshold |-> JNum(0)]),
                   JObj([k |-> JStr("g")]),
                   JObj([k |-> JStr("g"), orphanedSessionThreshold |-> JNum(1)]) } }

\* the working directories config and init are invoked from
ConfigDirs == {HomeDir, "/a"}

\* the arguments of config: none, a key, a key and a raw value
ConfigArgs ==
  { <<>> }
  \cup { <<key>> : key \in {"k", "orphanedSessionThreshold", "constructor"} }
  \cup { <<"k", "v">>, <<"orphanedSessionThreshold", "300">> }

\* the start of the session that is open in /a when the settings are explored
SessionStart == CoarseStep - MinutesPerHour * MsPerMinute

\* a machine with a session open in /a for an hour and any settings documents
InitSettings ==
  /\ sessions = File(<<JSONstringify(JObj(LogEntry(toISOString(SessionStart),
                                                   "start", "wip", "/a"))), NL>>)
  /\ globalSettings \in SettingsDocs
  /\ \E doc \in SettingsDocs :
       projectSettings = [dir \in Projects |-> IF dir = "/a" THEN doc ELSE NoFile]
  /\ dirs = {GlobalDir} \cup { createPathConfig(dir).projectDir :
                                 dir \in { d \in Projects : projectSettings[d].exists } }
  /\ now = CoarseStep
  /\ last = NoInvocation
  /\ proc = NoProcess
  /\ running = [p \in Pids |-> Idle]

NextSettings ==
  \/ \E currentDir \in ConfigDirs, args \in ConfigArgs :
       ConfigCommand(currentDir, args) /\ Ends
  \/ \E currentDir \in ConfigDirs : InitCommand(currentDir) /\ Ends
  \/ \E currentDir \in Projects : Status(currentDir, 0) /\ Ends

SpecSettings == InitSettings /\ [][NextSettings]_vars

\* the same machine under the earlier config command
NextPathless ==
  \E currentDir \in ConfigDirs, args \in ConfigArgs :
    ConfigExecute(args, currentDir, HomeDir) /\ Ends

SpecPathless == InitSettings /\ [][NextPathless]_vars

\* the raw values given to config set: one for every rung of the ladder,
\* blank and signed numbers, and bracketed text that does not parse
RawValues ==
  { "true", "false", "null", "42", "-7", "", " 5 ", "[1]", "{\"a\":1}", "[x", "{x", "abc", "True" }

\* the arguments of config when the coercion is explored
CoerceArgs == { <<"k">> } \cup { <<"k", value>> : value \in RawValues }

\* a machine without sessions whose project settings of /a are any document
InitCoerce ==
  /\ sessions = NoFile
  /\ globalSettings = NoFile
  /\ \E doc \in SettingsDocs :
       projectSettings = [dir \in Projects |-> IF dir = "/a" THEN doc ELSE NoFile]
  /\ dirs = IF projectSettings["/a"].exists THEN {createPathConfig("/a").projectDir} ELSE {}
  /\ now = 0
  /\ last = NoInvocation
  /\ proc = NoProcess
  /\ running = [p \in Pids |-> Idle]

NextCoerce == \E args \in CoerceArgs : ConfigCommand("/a", args) /\ Ends

SpecCoerce == InitCoerce /\ [][NextCoerce]_vars

\* a machine whose log holds one session of /a, begun up to MaxHalfMinutes
\* half minutes before the clock's reading or, by a clock set back since,
\* after it
InitDuration ==
  /\ \E k \in (0 - MaxHalfMinutes)..MaxHalfMinutes :
       sessions = File(<<JSONstringify(JObj(LogEntry(toISOString(CoarseStep - k * HalfMinute),
                                                    "start", "wip", "/a"))), NL>>)
  /\ globalSettings = NoFile
  /\ projectSettings = [dir \in Projects |-> NoFile]
  /\ dirs = {GlobalDir}
  /\ now = CoarseStep
  /\ last = NoInvocation
  /\ proc = NoProcess
  /\ running = [p \in Pids |-> Idle]

NextDuration ==
  \/ Start("/a", " wip ") /\ Ends
  \/ Stop("/a", " wip ", 0) /\ Ends
  \/ Status("/a", 0) /\ Ends
  \/ Tick(HalfMinute)

SpecDuration == InitDuration /\ [][NextDuration]_vars

\* the argument lists given to the tool
MainArgs ==
  { <<>>, <<"help">>, <<"log">>,
    <<"start">>, <<"start", " ">>, <<"start", "fix", "bug">>,
    <<"stop">>, <<"stop", " ">>, <<"stop", "done">>,
    <<"status">>, <<"init">>,
    <<"config">>, <<"config", "k">>, <<"config", "k", "v">> }

\* the working directories the argument lists are given in: config and init
\* are run in /a
MainDirs(args) ==
  IF Len(args) > 0 /\ args[1] \in {"init", "config"} THEN {"/a"} ELSE Projects

\* a fresh machine: no session log (or an empty one), and a global settings
\* document that is absent or sets a threshold of one minute
InitMain ==
  /\ sessions \in {NoFile, File(<<>>)}
  /\ globalSettings \in { NoFile,
                          File(<<JSONstringify(JObj([orphanedSessionThreshold |-> JNum(1)]))>>) }
  /\ projectSettings = [dir \in Projects |-> NoFile]
  /\ dirs = IF sessions.exists \/ globalSettings.exists THEN {GlobalDir} ELSE {}
  /\ now = 0
  /\ last = NoInvocation
  /\ proc = NoProcess
  /\ running = [p \in Pids |-> Idle]

NextMain ==
  \/ \E args \in MainArgs : \E currentDir \in MainDirs(args) : main(args, currentDir, 0)
  \/ Tick(CoarseStep)

SpecMain == InitMain /\ [][NextMain]_vars

\* a machine on which two invocations of start and stop are about to run
\* together: no log, an empty one, or one that holds an open session of /a
\* begun four hours ago
InitRace ==
  /\ sessions \in { NoFile, File(<<>>),
                    File(<<JSONstringify(JObj(LogEntry(toISOString(0), "start", "old", "/a"))),
                           NL>>) }
  /\ globalSettings = NoFile
  /\ projectSettings = [dir \in Projects |-> NoFile]
  /\ dirs = IF sessions.exists THEN {GlobalDir} ELSE {}
  /\ now = CoarseStep
  /\ last = NoInvocation
  /\ proc = NoProcess
  /\ running = [p \in Pids |-> Idle]

NextRace ==
  \/ \E p \in Pids, cmd \in {"start", "stop"}, currentDir \in Projects, message \in Messages :
       Invoke(p, cmd, currentDir, message)
  \/ \E p \in Pids : ReadReplay(p)
  \/ \E p \in Pids : EnsureDir(p)
  \/ \E p \in Pids : ExistsForAppend(p)
  \/ \E p \in Pids : ReadForAppend(p)
  \/ \E p \in Pids : Write(p)

SpecRace == InitRace /\ [][NextRace]_vars

\* the lines of a log kept over several sessions and touched by other
\* hands: entries of both projects written at two instants, a junk line, an
\* object that has a project and a type and nothing else, and null
LedgerLines ==
  { <<JSONstringify(JObj(LogEntry(toISOString(t), type,
                                  IF t = 0 THEN "one" ELSE "two", project)))>> :
      t \in {0, CoarseStep}, type \in {"start", "stop"}, project \in Projects }
  \cup { <<Junk>>,
         <<JSONstringify(JObj([project |-> "/a", type |-> "start"]))>>,
         <<JSONstringify(JNull)>> }

\* the texts of up to n of these lines, each ended by its newline
RECURSIVE LedgerTexts(_)
LedgerTexts(n) ==
  IF n = 0 THEN { <<>> }
  ELSE LET shorter == LedgerTexts(n - 1) IN
       shorter \cup { text \o line \o <<NL>> : text \in shorter, line \in LedgerLines }

\* a machine whose log holds up to MaxLedgerLines such lines in any order,
\* read half a minute after the later instant
InitLedger ==
  /\ sessions \in { File(text) : text \in LedgerTexts(MaxLedgerLines) }
  /\ globalSettings = NoFile
  /\ projectSettings = [dir \in Projects |-> NoFile]
  /\ dirs = {GlobalDir}
  /\ now = CoarseStep + HalfMinute
  /\ last = NoInvocation
  /\ proc = NoProcess
  /\ running = [p \in Pids |-> Idle]

NextLedger ==
  \/ \E currentDir \in Projects : Start(currentDir, " wip ") /\ Ends
  \/ \E currentDir \in Projects : Stop(currentDir, " wip ", 0) /\ Ends
  \/ \E currentDir \in Projects : Status(currentDir, 0) /\ Ends

SpecLedger == InitLedger /\ [][NextLedger]_vars

\* the thresholds found in the global settings document: none, zero,
\* minutes above zero and minutes below zero
OrphanSettings ==
  { NoFile }
  \cup { File(<<JSONstringify(JObj([orphanedSessionThreshold |-> JNum(n)]))>>) :
           n \in {0, 1, 2, -1, -5} }

\* a machine whose log holds one session of /a stamped up to
\* MaxAheadHalfMinutes half minutes behind the clock or ahead of it
InitOrphan ==
  /\ \E k \in (0 - MaxAheadHalfMinutes)..MaxAheadHalfMinutes :
       sessions = File(<<JSONstringify(JObj(LogEntry(toISOString(CoarseStep - k * HalfMinute),
                                                    "start", "wip", "/a"))), NL>>)
  /\ globalSettings \in OrphanSettings
  /\ projectSettings = [dir \in Projects |-> NoFile]
  /\ dirs = {GlobalDir}
  /\ now = CoarseStep
  /\ last = NoInvocation
  /\ proc = NoProcess
  /\ running = [p \in Pids |-> Idle]

NextOrphan ==
  \/ \E currentDir \in Projects, skew \in ClockSkews : Status(currentDir, skew) /\ Ends
  \/ Tick(HalfMinute)

SpecOrphan == InitOrphan /\ [][NextOrphan]_vars

\* the thresholds found in the global settings document when the warning
\* is explored: none, the falsy values 0, null, "" and false, and minutes
\* that are and are not whole hours
WarningSettings ==
  { NoFile }
  \cup { File(<<JSONstringify(JObj([orphanedSessionThreshold |-> v]))>>) :
           v \in { JNum(0), JNull, JStr(""), JBool(FALSE), JNum(120), JNum(90) } }

\* the starts of the session that is open in /a: four hours and a few
\* half minutes before the clock's first reading
WarningStarts == {0} \cup { CoarseStep - k * HalfMinute : k \in {1, 3} }

\* a machine whose log holds one session of /a and whose global settings
\* hold any of these thresholds
InitWarning ==
  /\ \E startMs \in WarningStarts :
       sessions = File(<<JSONstringify(JObj(LogEntry(toISOString(startMs),
                                                    "start", "wip", "/a"))), NL>>)
  /\ globalSettings \in WarningSettings
  /\ projectSettings = [dir \in Projects |-> NoFile]
  /\ dirs = {GlobalDir}
  /\ now = CoarseStep
  /\ last = NoInvocation
  /\ proc = NoProcess
  /\ running = [p \in Pids |-> Idle]

NextWarning ==
  \/ \E currentDir \in Projects, skew \in ClockSkews : Status(currentDir, skew) /\ Ends
  \/ Tick(HalfMinute)

SpecWarning == InitWarning /\ [][NextWarning]_vars

Next ==
  \/ \E currentDir \in Projects, message \in Messages :
       Start(currentDir, message) /\ Ends
  \/ \E currentDir \in Projects, message \in Messages, skew \in ClockSkews :
       Stop(currentDir, message, skew) /\ Ends
  \/ \E currentDir \in Projects, skew \in ClockSkews :
       Status(currentDir, skew) /\ Ends
  \/ \E delta \in TickDeltas : Tick(delta)

Spec == Init /\ [][Next]_vars

SpecEdited == InitEdited /\ [][Next]_vars

TypeOK ==
  /\ sessions.exists \in BOOLEAN
  /\ now \in 0..MaxNow
  /\ last.threw \in BOOLEAN

----------------------------------------------------------------------------
(* The session state of a project, as the specification defines it.        *)

\* the lines of a file, as they stand between its newlines
RawLines(file) == IF file.exists THEN SplitLines(file.text) ELSE <<>>

LogEntryFields == {"timestamp", "type", "message", "project"}

\* the line holds one JSON object shaped like a LogEntry
IsEntryLine(line) ==
  /\ JSONparses(line)
  /\ JSONparse(line).t = "obj"
  /\ DOMAIN JSONparse(line).f = LogEntryFields

IsEntryOf(line, type, project) ==
  /\ IsEntryLine(line)
  /\ JSONparse(line).f.type = type
  /\ JSONparse(line).f.project = project

\* the positions of the start entries of a project that no stop entry of
\* that project follows
UnmatchedStarts(file, project) ==
  LET lines == RawLines(file) IN
  { i \in 1..Len(lines) :
      /\ IsEntryOf(lines[i], "start", project)
      /\ \A j \in (i + 1)..Len(lines) : ~IsEntryOf(lines[j], "stop", project) }

SetMax(S) == CHOOSE i \in S : \A j \in S : j <= i

\* Active(entry) as the entry, NoSession as null
ActiveEntry(file, project) ==
  IF UnmatchedStarts(file, project) = {} THEN JNull
  ELSE JSONparse(RawLines(file)[SetMax(UnmatchedStarts(file, project))])

\* every line of the file is an entry, a blank line or a line that is not JSON
EntriesAndJunkOnly(file) ==
  \A i \in 1..Len(RawLines(file)) :
    JSONparses(RawLines(file)[i]) => IsEntryLine(RawLines(file)[i])

NonBlank(message) == message \notin {"", " "}

----------------------------------------------------------------------------
(* Claims.                                                                 *)

\* C1: for every log of entries and junk lines and every project, each of
\* the three replays (start, stop, status) returns the most recent start
\* entry of the project that no stop entry of the project follows in file
\* order, and null when there is none or the file is absent or empty.
C1_ReplayIsLastUnmatchedStart ==
  EntriesAndJunkOnly(sessions) =>
    \A project \in Projects :
      /\ StatusGetActiveSession(sessions, project) = ActiveEntry(sessions, project)
      /\ StartGetActiveSession(sessions, project) = ActiveEntry(sessions, project)
      /\ StopGetActiveSession(sessions, project) = ActiveEntry(sessions, project)

\* status reported a session whose start follows a stop of the same project
C1_Witness ==
  \E project \in Projects :
    /\ last.cmd = "status"
    /\ last.dir = project
    /\ Len(last.out) >= 3
    /\ StatusGetActiveSession(sessions, project) # JNull
    /\ \E j \in 1..Len(RawLines(sessions)) :
         /\ IsEntryOf(RawLines(sessions)[j], "stop", project)
         /\ j < SetMax(UnmatchedStarts(sessions, project))

\* the step is an invocation of the command with these arguments
Invoked(cmd, project, message) ==
  /\ last'.cmd = cmd
  /\ last'.dir = project
  /\ last'.message = message

\* the text the message argument is trimmed to
Trimmed(message) == IF message = " wip " THEN "wip" ELSE ""

\* the number of entries a file holds
EntryCount(file) ==
  Cardinality({ i \in 1..Len(RawLines(file)) : IsEntryLine(RawLines(file)[i]) })

StartedAt(file, project) == ActiveEntry(file, project).f.timestamp.iso

\* C2: a start with a non-blank message for a project with no session
\* appends exactly one entry (type start, the trimmed message, the invoking
\* directory as project), returns Started session: "<message>", and leaves
\* the project active with that entry.
C2_StartAccepted ==
  [][\A project \in Projects, message \in Messages :
       (/\ Invoked("start", project, message)
        /\ NonBlank(message)
        /\ ActiveEntry(sessions, project) = JNull
        /\ Start(project, message))
       => LET entry == LogEntry(toISOString(now), "start", Trimmed(message), project) IN
          /\ sessions'.exists
          /\ sessions'.text = sessions.text \o <<JSONstringify(JObj(entry)), NL>>
          /\ EntryCount(sessions') = EntryCount(sessions) + 1
          /\ last' = Returned("start", project, message,
                              <<"Started session: \"" \o message \o "\"">>)
          /\ ActiveEntry(sessions', project) = JObj(entry)]_vars

\* a start was accepted after an earlier session of the project was closed
C2_Witness ==
  /\ last.cmd = "start"
  /\ last.out = <<"Started session: \" wip \"">>
  /\ ActiveEntry(sessions, last.dir) # JNull
  /\ ActiveEntry(sessions, last.dir).f.message = "wip"
  /\ \E j \in 1..Len(RawLines(sessions)) : IsEntryOf(RawLines(sessions)[j], "stop", last.dir)

\* C3: a start (with a non-blank message) for a project that is active is
\* rejected: it returns the warning that names the message of the existing
\* session and its elapsed label, and the session log is unchanged.
C3_StartRejected ==
  [][\A project \in Projects, message \in Messages :
       (/\ Invoked("start", project, message)
        /\ NonBlank(message)
        /\ ActiveEntry(sessions, project) # JNull
        /\ Start(project, message))
       => /\ sessions' = sessions
          /\ last' = Returned("start", project, message,
               << "Warning: Active session already exists for this project.",
                  "Current session: \"" \o ActiveEntry(sessions, project).f.message
                    \o "\" (started "
                    \o DurationLabel(ElapsedMinutes(StartedAt(sessions, project), now))
                    \o " ago)" >>)]_vars

\* a start was rejected 30 seconds after the session began
C3_Witness ==
  /\ last.cmd = "start"
  /\ last.out = << "Warning: Active session already exists for this project.",
                   "Current session: \"wip\" (started 0m ago)" >>
  /\ ActiveEntry(sessions, last.dir) # JNull
  /\ now = StartedAt(sessions, last.dir) + HalfMinute

\* C4: a stop with a non-blank message for an active project appends exactly
\* one stop entry of that project, returns Stopped session: "<message>"
\* (duration: <elapsed label since the start entry>), and leaves the project
\* with no session.
C4_StopAccepted ==
  [][\A project \in Projects, message \in Messages, skew \in ClockSkews :
       (/\ Invoked("stop", project, message)
        /\ NonBlank(message)
        /\ ActiveEntry(sessions, project) # JNull
        /\ Stop(project, message, skew))
       => LET entry == LogEntry(toISOString(now), "stop", Trimmed(message), project) IN
          /\ sessions'.text = sessions.text \o <<JSONstringify(JObj(entry)), NL>>
          /\ EntryCount(sessions') = EntryCount(sessions) + 1
          /\ last' = Returned("stop", project, message,
               <<"Stopped session: \"" \o message \o "\" (duration: "
                   \o DurationLabel(ElapsedMinutes(StartedAt(sessions, project), now'))
                   \o ")">>)
          /\ ActiveEntry(sessions', project) = JNull]_vars

\* a session of four hours was stopped
C4_Witness ==
  /\ last.cmd = "stop"
  /\ last.out = <<"Stopped session: \" wip \" (duration: 4h 0m)">>
  /\ ActiveEntry(sessions, last.dir) = JNull
  /\ EntryCount(sessions) >= 2

\* C5: a stop (with a non-blank message) for a project without an unmatched
\* start returns No active session to stop and leaves the log unchanged, so
\* that a repeated stop meets the same log and gives the same result.
C5_StopWithoutStart ==
  [][\A project \in Projects, message \in Messages, skew \in ClockSkews :
       (/\ Invoked("stop", project, message)
        /\ NonBlank(message)
        /\ ActiveEntry(sessions, project) = JNull
        /\ Stop(project, message, skew))
       => /\ sessions' = sessions
          /\ last' = Returned("stop", project, message, <<"No active session to stop">>)
          /\ ActiveEntry(sessions', project) = JNull]_vars

\* a stop found the session of its project already stopped
C5_Witness ==
  /\ last.cmd = "stop"
  /\ last.out = <<"No active session to stop">>
  /\ \E i, j \in 1..Len(RawLines(sessions)) :
       /\ i < j
       /\ IsEntryOf(RawLines(sessions)[i], "start", last.dir)
       /\ IsEntryOf(RawLines(sessions)[j], "stop", last.dir)

\* C6: start and stop with a message that trims to empty return Error:
\* Message is required for <start|stop> command whatever the session state
\* is, and leave the log, the settings and the directories unchanged.
C6_BlankMessage ==
  [][\A project \in Projects, message \in Messages :
       ~NonBlank(message) =>
         /\ (Invoked("start", project, message) /\ Start(project, message)) =>
              /\ last' = Returned("start", project, message,
                                  <<"Error: Message is required for start command">>)
              /\ UNCHANGED <<sessions, globalSettings, projectSettings, dirs>>
         /\ \A skew \in ClockSkews :
              (Invoked("stop", project, message) /\ Stop(project, message, skew)) =>
              /\ last' = Returned("stop", project, message,
                                  <<"Error: Message is required for stop command">>)
              /\ UNCHANGED <<sessions, globalSettings, projectSettings, dirs>>]_vars

\* a stop with a blank message was refused while the project was active
C6_Witness ==
  /\ last.cmd = "stop"
  /\ last.message = " "
  /\ last.out = <<"Error: Message is required for stop command">>
  /\ ActiveEntry(sessions, last.dir) # JNull

\* a file without the lines that are entries of one project
RECURSIVE DropEntriesOf(_, _)
DropEntriesOf(lines, project) ==
  IF lines = <<>> THEN <<>>
  ELSE IF IsEntryLine(Head(lines)) /\ JSONparse(Head(lines)).f.project = project
       THEN DropEntriesOf(Tail(lines), project)
       ELSE <<Head(lines)>> \o DropEntriesOf(Tail(lines), project)

RECURSIVE JoinLines(_)
JoinLines(lines) ==
  IF lines = <<>> THEN <<>>
  ELSE IF Len(lines) = 1 THEN Head(lines)
  ELSE Head(lines) \o <<NL>> \o JoinLines(Tail(lines))

WithoutProject(file, project) ==
  [exists |-> file.exists, text |-> JoinLines(DropEntriesOf(RawLines(file), project))]

\* C7: project isolation.  For projects a # b the entries of a never change
\* the active session computed for b (by any of the three replays): the log
\* without the entries of a gives b the same session.  So a session that is
\* active in a does not keep a start in b from being accepted, and does not
\* let a stop in b succeed.
C7_ProjectIsolation ==
  /\ [](\A a, b \in Projects : a # b =>
          /\ StatusGetActiveSession(WithoutProject(sessions, a), b)
               = StatusGetActiveSession(sessions, b)
          /\ StartGetActiveSession(WithoutProject(sessions, a), b)
               = StartGetActiveSession(sessions, b)
          /\ StopGetActiveSession(WithoutProject(sessions, a), b)
               = StopGetActiveSession(sessions, b))
  /\ [][\A a, b \in Projects, message \in Messages :
          (/\ a # b
           /\ NonBlank(message)
           /\ ActiveEntry(sessions, a) # JNull
           /\ ActiveEntry(sessions, b) = JNull)
          => /\ (Invoked("start", b, message) /\ Start(b, message)) =>
                  /\ last'.out = <<"Started session: \"" \o message \o "\"">>
                  /\ sessions' # sessions
             /\ \A skew \in ClockSkews :
                  (Invoked("stop", b, message) /\ Stop(b, message, skew)) =>
                  /\ last'.out = <<"No active session to stop">>
                  /\ sessions' = sessions]_vars

\* a stop in one project was refused while the other project was active
C7_Witness ==
  /\ last.cmd = "stop"
  /\ last.out = <<"No active session to stop">>
  /\ \E a \in Projects : a # last.dir /\ ActiveEntry(sessions, a) # JNull
  /\ ActiveEntry(sessions, last.dir) = JNull
  /\ \E j \in 1..Len(RawLines(sessions)) : IsEntryOf(RawLines(sessions)[j], "stop", last.dir)

\* lines that are blank or are not JSON
JunkLines ==
  { <<>>, <<SP>>, <<Junk>>,
    <<Junk, JSONstringify(JObj(LogEntry(toISOString(0), "stop", "old", "/a")))>> }

\* the file with one more line, placed after its first i lines
InsertLine(file, i, line) ==
  File(JoinLines(SubSeq(RawLines(file), 1, i) \o <<line>>
                   \o SubSeq(RawLines(file), i + 1, Len(RawLines(file)))))

\* C8: malformed-line tolerance.  A blank or non-JSON line inserted at any
\* line position of the log changes the active session of no project (for
\* each of the three replays), and start, stop and status never fail on a
\* log that holds such lines.
C8_MalformedLineTolerance ==
  /\ ~last.threw
  /\ sessions.exists =>
       \A project \in Projects :
         LET status == StatusGetActiveSession(sessions, project)
             start == StartGetActiveSession(sessions, project)
             stop == StopGetActiveSession(sessions, project)
         IN \A i \in 0..Len(RawLines(sessions)), line \in JunkLines :
              LET edited == InsertLine(sessions, i, line) IN
              /\ StatusGetActiveSession(edited, project) = status
              /\ StartGetActiveSession(edited, project) = start
              /\ StopGetActiveSession(edited, project) = stop

\* status reported a session that began after a junk line of the log
C8_Witness ==
  /\ last.cmd = "status"
  /\ ~last.threw
  /\ Len(last.out) >= 3
  /\ ActiveEntry(sessions, last.dir) # JNull
  /\ \E j \in 1..Len(RawLines(sessions)) :
       /\ Len(TrimText(RawLines(sessions)[j])) > 0
       /\ ~JSONparses(RawLines(sessions)[j])
       /\ j < SetMax(UnmatchedStarts(sessions, last.dir))

IsPrefix(s, t) == Len(s) <= Len(t) /\ SubSeq(t, 1, Len(s)) = s

\* the invocation reported an accepted start or stop
Accepted(invocation) ==
  /\ ~invocation.threw
  /\ invocation.cmd \in {"start", "stop"}
  /\ invocation.out \notin
       { <<"Error: Message is required for start command">>,
         <<"Error: Message is required for stop command">>,
         <<"No active session to stop">> }
  /\ Len(invocation.out) = 1

\* C9: the session log is append-only.  After every step the previous
\* content is a prefix of the new content and the file is never removed; a
\* start or stop that is accepted adds exactly the compact JSON of its entry
\* followed by one newline, and every other outcome adds nothing.
C9_AppendOnly ==
  [][/\ sessions.exists => sessions'.exists
     /\ IsPrefix(sessions.text, sessions'.text)
     /\ \A project \in Projects, message \in Messages :
          /\ (Invoked("start", project, message) /\ Start(project, message)) =>
               IF Accepted(last')
               THEN sessions' = File(sessions.text \o
                      <<JSONstringify(JObj(LogEntry(toISOString(now), "start",
                                                    Trimmed(message), project))), NL>>)
               ELSE sessions' = sessions
          /\ \A skew \in ClockSkews :
               (Invoked("stop", project, message) /\ Stop(project, message, skew)) =>
               IF Accepted(last')
               THEN sessions' = File(sessions.text \o
                      <<JSONstringify(JObj(LogEntry(toISOString(now), "stop",
                                                    Trimmed(message), project))), NL>>)
               ELSE sessions' = sessions
     /\ last'.cmd \notin {"start", "stop"} => sessions' = sessions]_vars

\* an entry was appended to a log whose earlier content ends in blank lines
C9_Witness ==
  /\ Accepted(last)
  /\ Len(sessions.text) >= 4
  /\ sessions.text[Len(sessions.text) - 2] = NL
  /\ sessions.text[Len(sessions.text) - 3] = NL

\* C10: status for an active project returns the base report (message,
\* duration, project) and holds the warning line exactly when the elapsed
\* whole minutes since the start entry are strictly greater than the
\* threshold; at the threshold or below there is no warning.
C10_StatusWarning ==
  [][\A project \in Projects, skew \in ClockSkews :
       (/\ Invoked("status", project, "")
        /\ ActiveEntry(sessions, project) # JNull
        /\ Status(project, skew))
       => LET entry == ActiveEntry(sessions, project).f
              threshold == orphanedThresholdOf(loadSettings(globalSettings))
          IN /\ ~last'.threw
             /\ Len(last'.out) \in {3, 4}
             /\ SubSeq(last'.out, 1, 3) =
                  << "Active session: \"" \o entry.message \o "\"",
                     "Duration: " \o DurationLabel((now - entry.timestamp.iso) \div MsPerMinute),
                     "Project: " \o project >>
             /\ Len(last'.out) = 4 <=>
                  ((now' - entry.timestamp.iso) \div MsPerMinute) > threshold]_vars

\* status, exactly 240 minutes into a session under the default threshold,
\* reported it without the warning
C10_Witness ==
  /\ last.cmd = "status"
  /\ ~globalSettings.exists
  /\ ActiveEntry(sessions, last.dir) # JNull
  /\ now - StartedAt(sessions, last.dir) = DefaultThreshold * MsPerMinute
  /\ last.out = << "Active session: \"wip\"", "Duration: 4h 0m", "Project: " \o last.dir >>

----------------------------------------------------------------------------
(* Claims about the settings documents.                                    *)

\* the value a settings document gives a key, when the document exists,
\* parses and is an object that defines the key
Defines(file, key) ==
  /\ file.exists
  /\ JSONparses(file.text)
  /\ JSONparse(file.text).t = "obj"
  /\ key \in DOMAIN JSONparse(file.text).f

ValueIn(file, key) == JSONparse(file.text).f[key]

\* the minutes the open session of a project has lasted
SessionMinutes(project) == (now - StartedAt(sessions, project)) \div MsPerMinute

\* the invocation was a status that reported a session, with the warning line
Warned(invocation) == Len(invocation.out) = 4

\* C11: status decides the warning with the orphanedSessionThreshold of the
\* global settings document when that document exists, parses and defines
\* it, and with 240 when the document is absent, does not parse or lacks the
\* key; it returns a normal result and never fails.
C11_ThresholdFromGlobal ==
  [][\A project \in Projects :
       (/\ Invoked("status", project, "")
        /\ Status(project, 0))
       => LET threshold ==
                IF Defines(globalSettings, "orphanedSessionThreshold")
                THEN ValueIn(globalSettings, "orphanedSessionThreshold").n
                ELSE DefaultThreshold
          IN /\ ~last'.threw
             /\ IF ActiveEntry(sessions, project) = JNull
                THEN last'.out = <<"No active session">>
                ELSE /\ Len(last'.out) \in {3, 4}
                     /\ Warned(last') <=> SessionMinutes(project) > threshold]_vars

\* C12: when the project settings document and the global settings document
\* both define orphanedSessionThreshold, status decides the warning with the
\* value of the project document.
C12_ProjectOverridesGlobal ==
  [][\A project \in Projects :
       (/\ Invoked("status", project, "")
        /\ Defines(globalSettings, "orphanedSessionThreshold")
        /\ Defines(projectSettings[project], "orphanedSessionThreshold")
        /\ ActiveEntry(sessions, project) # JNull
        /\ Status(project, 0))
       => /\ ~last'.threw
          /\ Warned(last') <=>
               SessionMinutes(project) > ValueIn(projectSettings[project],
                                                 "orphanedSessionThreshold").n]_vars

\* the project settings document of a working directory; in the home
\* directory it is the global document
ProjectDoc(dir) == IF dir = HomeDir THEN globalSettings ELSE projectSettings[dir]

\* the document config get is said to consult
ChosenDoc(dir) == IF ProjectDoc(dir).exists THEN ProjectDoc(dir) ELSE globalSettings

NotFound(key) == "Setting '" \o key \o "' not found"

\* the step is config get of a key in a directory
InvokedGet(dir, key) ==
  /\ last'.cmd = "config"
  /\ last'.dir = dir
  /\ last'.args = <<key>>

\* C13: config get returns Setting '<key>' not found when the chosen
\* document does not exist or parses to JSON that lacks the key, Error
\* reading settings file when the document does not parse, and otherwise
\* <key>: <JSON of the value>; it never raises.
C13_GetResult ==
  [][\A dir \in ConfigDirs, key \in {"k", "orphanedSessionThreshold", "constructor"} :
       (/\ InvokedGet(dir, key)
        /\ ConfigCommand(dir, <<key>>))
       => LET doc == ChosenDoc(dir) IN
          /\ ~last'.threw
          /\ last'.out =
               IF ~doc.exists THEN <<NotFound(key)>>
               ELSE IF ~JSONparses(doc.text) THEN <<"Error reading settings file">>
               ELSE IF ~Defines(doc, key) THEN <<NotFound(key)>>
               ELSE <<key \o ": " \o JSONtext(ValueIn(doc, key))>>]_vars

\* C14: config get consults one document, the project settings document if
\* it exists and the global one otherwise; when the project document exists
\* and lacks the key the result is not-found, whatever the global document
\* defines.
C14_GetConsultsOneDocument ==
  [][\A dir \in ConfigDirs, key \in {"k", "orphanedSessionThreshold", "constructor"} :
       (/\ InvokedGet(dir, key)
        /\ ConfigCommand(dir, <<key>>))
       => /\ last'.out = <<getValue(ChosenDoc(dir), key)>>
          /\ (/\ ProjectDoc(dir).exists
              /\ JSONparses(ProjectDoc(dir).text)
              /\ ~Defines(ProjectDoc(dir), key))
             => last'.out = <<NotFound(key)>>]_vars

\* the step is config set of a key to a raw value in a directory
InvokedSet(dir, key, value) ==
  /\ last'.cmd = "config"
  /\ last'.dir = dir
  /\ last'.args = <<key, value>>

\* C15: no config invocation creates or modifies the global settings
\* document, and every config set writes the project settings document of
\* its directory, whether or not that document existed before.
C15_SetWritesProjectOnly ==
  [][last'.cmd = "config" =>
       /\ globalSettings' = globalSettings
       /\ \A dir \in ConfigDirs, args \in ConfigArgs :
            (/\ Len(args) = 2
             /\ InvokedSet(dir, args[1], args[2])
             /\ ConfigCommand(dir, args))
            => /\ ~last'.threw
               /\ ProjectDoc(dir)'.exists
               /\ JSONparses(ProjectDoc(dir)'.text)]_vars

----------------------------------------------------------------------------
(* Claims about the coercion of config set.                                *)

\* the value the ladder gives each raw value: true and false are booleans,
\* null is null, text that converts to a number is that number (blank text
\* converts to 0), bracketed text that parses is the parsed value, and the
\* rest stays text
Coerced(value) ==
  CASE value = "true" -> JBool(TRUE)
    [] value = "false" -> JBool(FALSE)
    [] value = "null" -> JNull
    [] value = "42" -> JNum(42)
    [] value = "-7" -> JNum(-7)
    [] value = "" -> JNum(0)
    [] value = " 5 " -> JNum(5)
    [] value = "[1]" -> JArr(<<JNum(1)>>)
    [] value = "{\"a\":1}" -> JObj([a |-> JNum(1)])
    [] value \in {"[x", "{x", "abc", "True"} -> JStr(value)

\* C16: settings round-trip.  config get k right after config set k v
\* returns k: <JSON of the coerced v>, for every raw value v.
C16_RoundTrip ==
  [][(/\ last.cmd = "config"
      /\ Len(last.args) = 2
      /\ InvokedGet(last.dir, last.args[1])
      /\ ConfigCommand(last.dir, <<last.args[1]>>))
     => /\ ~last.threw
        /\ last'.out = <<last.args[1] \o ": " \o JSONtext(Coerced(last.args[2]))>>]_vars

\* the existing document is absent, corrupt or a JSON object
Settable(file) ==
  \/ ~file.exists
  \/ ~JSONparses(file.text)
  \/ JSONparse(file.text).t = "obj"

\* C17: the coercion ladder.  config set k v reports the coerced value in
\* its message, and on a document that is absent, corrupt or an object it
\* stores that value under k: booleans for true and false, null for null,
\* the number for text that converts to one, the parsed value for bracketed
\* text that parses, and the text itself otherwise.
C17_CoercionLadder ==
  [][\A value \in RawValues :
       (/\ InvokedSet("/a", "k", value)
        /\ ConfigCommand("/a", <<"k", value>>))
       => /\ ~last'.threw =>
               last'.out = <<"Set project setting k: " \o JSONtext(Coerced(value))>>
          /\ Settable(projectSettings["/a"]) =>
               /\ ~last'.threw
               /\ Defines(projectSettings'["/a"], "k")
               /\ ValueIn(projectSettings'["/a"], "k") = Coerced(value)]_vars

\* bracketed text that does not parse was stored as text, over a number
C17_Witness ==
  /\ last.cmd = "config"
  /\ last.args = <<"k", "[x">>
  /\ last.out = <<"Set project setting k: \"[x\"">>
  /\ Defines(projectSettings["/a"], "k")
  /\ ValueIn(projectSettings["/a"], "k") = JStr("[x")
  /\ Defines(projectSettings["/a"], "orphanedSessionThreshold")

----------------------------------------------------------------------------
(* Claims about the elapsed label.                                         *)

\* the label the claim gives a minute count m: {h}h {r}m with h = floor(m/60),
\* r in 0..59 and 60h + r = m when h > 0, and {m}m otherwise
LabelOf(m) ==
  LET h == m \div MinutesPerHour IN
  IF h > 0
  THEN LET r == CHOOSE x \in 0..(MinutesPerHour - 1) : MinutesPerHour * h + x = m
       IN ToString(h) \o "h " \o ToString(r) \o "m"
  ELSE ToString(m) \o "m"

\* C18: the label that status, stop and a rejected start show for a session
\* is the label of its elapsed minutes floor((now - start) / 60000), negative
\* counts included and unclamped: {h}h {r}m when h > 0 and {m}m otherwise.
C18_ElapsedLabel ==
  [][\A project \in Projects :
       ActiveEntry(sessions, project) # JNull =>
         LET label == LabelOf(SessionMinutes(project)) IN
         /\ (Invoked("status", project, "") /\ Status(project, 0))
              => last'.out[2] = "Duration: " \o label
         /\ (Invoked("stop", project, " wip ") /\ Stop(project, " wip ", 0))
              => last'.out = <<"Stopped session: \" wip \" (duration: " \o label \o ")">>
         /\ (Invoked("start", project, " wip ") /\ Start(project, " wip "))
              => last'.out[2] = "Current session: \"wip\" (started " \o label \o " ago)"]_vars

\* status showed a session that begins an hour and a minute from now
C18_Witness ==
  /\ last.cmd = "status"
  /\ Len(last.out) = 3
  /\ last.out[2] = "Duration: -61m"
  /\ ActiveEntry(sessions, last.dir) # JNull
  /\ SessionMinutes(last.dir) = 0 - (MinutesPerHour + 1)

\* the characters of a label, in the order of their character codes
LabelChars == " -0123456789hm"

CharRank(c) == CHOOSE i \in 1..Len(LabelChars) : SubSeq(LabelChars, i, i) = c

\* s <= t in string order
RECURSIVE LexLeq(_, _)
LexLeq(s, t) ==
  IF Len(s) = 0 THEN TRUE
  ELSE IF Len(t) = 0 THEN FALSE
  ELSE LET a == CharRank(SubSeq(s, 1, 1))
           b == CharRank(SubSeq(t, 1, 1))
       IN IF a # b THEN a < b
          ELSE LexLeq(SubSeq(s, 2, Len(s)), SubSeq(t, 2, Len(t)))

\* the label in the report of a status
ShownLabel(invocation) == SubSeq(invocation.out[2], Len("Duration: ") + 1, Len(invocation.out[2]))

\* the minute counts up to m that fall in the hour bucket of m
BucketUpTo(m) == (MinutesPerHour * (m \div MinutesPerHour))..m

\* C19 as stated: within one hour bucket the label never decreases in string
\* order as the elapsed minutes grow: the label status shows for m2 minutes
\* is not below the label of any m1 <= m2 of the same bucket.
C19_LabelLexMonotone ==
  [][\A project \in Projects :
       (/\ Invoked("status", project, "")
        /\ ActiveEntry(sessions, project) # JNull
        /\ Status(project, 0))
       => \A m1 \in BucketUpTo(SessionMinutes(project)) :
            LexLeq(DurationLabel(m1), ShownLabel(last'))]_vars

\* C19 as amended: within one hour bucket, for elapsed minutes that are not
\* negative, the label never decreases in string order as the minutes grow
\* so long as the two labels have the same length.
C19_LabelLexMonotoneSameLength ==
  [][\A project \in Projects :
       (/\ Invoked("status", project, "")
        /\ ActiveEntry(sessions, project) # JNull
        /\ Status(project, 0))
       => \A m1 \in BucketUpTo(SessionMinutes(project)) :
            (m1 >= 0 /\ Len(DurationLabel(m1)) = Len(ShownLabel(last')))
            => LexLeq(DurationLabel(m1), ShownLabel(last'))]_vars

\* status showed 1h 11m, a label as long as that of the minute before
C19_Witness ==
  /\ last.cmd = "status"
  /\ Len(last.out) >= 3
  /\ ShownLabel(last) = "1h 11m"
  /\ SessionMinutes(last.dir) = MinutesPerHour + 11

----------------------------------------------------------------------------
(* Claims about init.                                                      *)

\* the document init is to write
DefaultProjectSettings ==
  JObj([ projectName |-> JNull,
         orphanedSessionThreshold |-> JNum(180),
         autoCommitSuggestions |-> JBool(TRUE),
         excludePatterns |-> JArr(<<JStr("node_modules"), JStr(".git")>>) ])

\* C20: init writes the default project settings document only when the
\* directory has no project settings document; when it has one (written by
\* an earlier init, by config set or by other hands) init returns Already
\* initialized and changes no file and no directory, so a second init
\* changes nothing.
C20_InitOnce ==
  [][\A dir \in ConfigDirs :
       (/\ last'.cmd = "init"
        /\ last'.dir = dir
        /\ InitCommand(dir))
       => IF ProjectDoc(dir).exists
          THEN /\ last'.out = <<"Already initialized">>
               /\ UNCHANGED <<sessions, globalSettings, projectSettings, dirs>>
          ELSE /\ last'.out =
                    <<"Project initialized with default settings in .devlog/settings.json">>
               /\ ProjectDoc(dir)'.exists
               /\ JSONparses(ProjectDoc(dir)'.text)
               /\ JSONparse(ProjectDoc(dir)'.text) = DefaultProjectSettings
               /\ sessions' = sessions
               /\ \A other \in Projects \ {dir} : projectSettings'[other] = projectSettings[other]
               /\ dir # HomeDir => globalSettings' = globalSettings]_vars

\* init found the document that config set had written and left it alone
C20_Witness ==
  /\ last.cmd = "init"
  /\ last.dir = "/a"
  /\ last.out = <<"Already initialized">>
  /\ Defines(projectSettings["/a"], "k")
  /\ ValueIn(projectSettings["/a"], "k") = JStr("v")
  /\ ~Defines(projectSettings["/a"], "projectName")

----------------------------------------------------------------------------
(* Claims about the command line.                                          *)

\* the arguments fail validation: start or stop without a message or with a
\* message that trims to empty, config without a key
ValidationFailure(args) ==
  /\ Len(args) > 0
  /\ \/ /\ args[1] \in {"start", "stop"}
        /\ Len(args) = 1 \/ Trim(JoinArgs(Tail(args))) = ""
     \/ args[1] = "config" /\ Len(args) = 1

\* the arguments name a command and pass validation
ValidCommand(args) ==
  /\ Len(args) > 0
  /\ args[1] \in {"start", "stop", "status", "init", "config", "help"}
  /\ ~ValidationFailure(args)

\* C21: at the command line every validation failure (start or stop whose
\* message is missing or trims to empty, config without a key) ends the
\* process with a nonzero exit code and the error message on the error
\* stream, and every command that succeeds ends it with exit code 0.
C21_ExitCodes ==
  [][\A args \in MainArgs, dir \in Projects :
       main(args, dir, 0) =>
         /\ ValidationFailure(args) =>
              /\ proc'.exit # 0
              /\ proc'.stderr # <<>>
              /\ proc'.stdout = <<>>
         /\ (ValidCommand(args) /\ ~last'.threw) => proc'.exit = 0]_vars

----------------------------------------------------------------------------
(* Claims about invocations that overlap.                                  *)

\* the invocation has returned and reported the entry it appended
ReportedAppend(inv) ==
  /\ inv.pc = "done"
  /\ ~inv.result.threw
  /\ Len(inv.result.out) = 1
  /\ \/ IsPrefix("Started session: ", inv.result.out[1])
     \/ IsPrefix("Stopped session: ", inv.result.out[1])

\* the entry an invocation made is on a line of the file
EntryInLog(file, logEntry) ==
  \E i \in 1..Len(RawLines(file)) :
    /\ JSONparses(RawLines(file)[i])
    /\ JSONparse(RawLines(file)[i]) = JObj(logEntry)

\* this step is the write of invocation p
Writes(p) == running[p].pc = "write" /\ running'[p].pc = "done"

\* C22: nothing guards against invocations that overlap.  When two
\* invocations have both read the session log before either writes it, the
\* one that writes last replaces the file by what it had read plus its own
\* entry: the log gains one entry where two were reported as appended, and
\* the entry of the first writer, reported as appended, is gone.
C22_LastWriteReplaces ==
  [][\A p \in Pids, q \in Pids :
       (/\ p # q
        /\ Writes(p)
        /\ ReportedAppend(running[q])
        /\ running[q].existingContent = running[p].existingContent)
       => /\ ReportedAppend(running'[p])
          /\ sessions'.text = running[p].existingContent
                                \o <<JSONstringify(JObj(running[p].logEntry)), NL>>
          /\ EntryCount(sessions') = EntryCount(sessions)
          /\ EntryCount(sessions') = EntryCount(File(running[p].existingContent)) + 1
          /\ running[q].logEntry # running[p].logEntry
               => ~EntryInLog(sessions', running[q].logEntry)]_vars

\* two starts in two projects have both reported Started session and the
\* log holds the entry of one of them only
C22_Witness ==
  \E p \in Pids, q \in Pids :
    /\ ReportedAppend(running[p])
    /\ ReportedAppend(running[q])
    /\ running[p].cmd = "start"
    /\ running[q].cmd = "start"
    /\ running[p].dir # running[q].dir
    /\ EntryInLog(sessions, running[p].logEntry)
    /\ ~EntryInLog(sessions, running[q].logEntry)
    /\ EntryCount(sessions) = 1

----------------------------------------------------------------------------
(* Claims about sequences of invocations.                                  *)

\* the types of the entries of a project, in file order
RECURSIVE TypesOf(_, _)
TypesOf(lines, project) ==
  IF lines = <<>> THEN <<>>
  ELSE IF IsEntryLine(Head(lines)) /\ JSONparse(Head(lines)).f.project = project
       THEN <<JSONparse(Head(lines)).f.type>> \o TypesOf(Tail(lines), project)
       ELSE TypesOf(Tail(lines), project)

\* start, stop, start, ... beginning with a start
Alternates(types) ==
  \A i \in 1..Len(types) : types[i] = IF i % 2 = 1 THEN "start" ELSE "stop"

\* C23: from an absent or empty log, after any sequence of sequential start,
\* stop, status, init and config invocations in any projects, the entries of
\* each project alternate start, stop, start, ... beginning with a start:
\* never two starts in a row nor two stops in a row for one project.
C23_EntriesAlternate ==
  \A project \in Projects : Alternates(TypesOf(RawLines(sessions), project))

\* the log holds start, stop, start of one project, and the last invocation
\* was a start of that project that was turned away
C23_Witness ==
  \E project \in Projects :
    /\ TypesOf(RawLines(sessions), project) = <<"start", "stop", "start">>
    /\ last.cmd = "start"
    /\ last.dir = project
    /\ Len(last.out) = 2

\* the last invocation was a start of the project that returned Started session
JustStarted(project) ==
  /\ last.cmd = "start"
  /\ last.dir = project
  /\ ~last.threw
  /\ Len(last.out) = 1
  /\ IsPrefix("Started session: ", last.out[1])

\* C24: whenever start returns Started session, a status that follows at
\* once in the same project reports that session as active, and a stop that
\* follows at once succeeds, whatever the log held before: also a log edited
\* by other hands whose last line is junk or lacks its newline.
C24_StartedIsActive ==
  [][\A project \in Projects :
       JustStarted(project) =>
         /\ Invoked("status", project, "") =>
              /\ ~last'.threw
              /\ Len(last'.out) >= 3
              /\ last'.out[1] = "Active session: \"" \o Trim(last.message) \o "\""
         /\ \A message \in Messages :
              (NonBlank(message) /\ Invoked("stop", project, message)) =>
                /\ ~last'.threw
                /\ IsPrefix("Stopped session: ", last'.out[1])]_vars

\* this step is a stop of the project that was accepted
StopAccepted(project) ==
  /\ last'.cmd = "stop"
  /\ last'.dir = project
  /\ Accepted(last')
  /\ sessions' # sessions

\* C25: an orphaned session is warned about and never closed.  A project
\* that is Active stays Active with the same start entry through status
\* calls (warning or not), starts that are turned away, commands with a
\* blank message, config and init, and commands in other projects, until a
\* stop with a non-blank message is accepted for it.
C25_ActiveUntilStopped ==
  [][\A project \in Projects :
       /\ (/\ sessions' # sessions
           /\ ~StopAccepted(project)
           /\ ActiveEntry(sessions, project) # JNull)
          => ActiveEntry(sessions', project) = ActiveEntry(sessions, project)
       /\ (/\ Invoked("status", project, "")
           /\ ActiveEntry(sessions, project) # JNull)
          => /\ sessions' = sessions
             /\ ~last'.threw
             /\ Len(last'.out) >= 3
             /\ last'.out[1] = "Active session: \""
                                 \o ActiveEntry(sessions, project).f.message \o "\""]_vars

\* status has just warned about the session of /a, which is still active,
\* after init ran in /a and a session of /b was started and stopped
C25_Witness ==
  /\ last.cmd = "status"
  /\ last.dir = "/a"
  /\ Len(last.out) = 4
  /\ ActiveEntry(sessions, "/a") # JNull
  /\ projectSettings["/a"].exists
  /\ TypesOf(RawLines(sessions), "/b") = <<"start", "stop">>

----------------------------------------------------------------------------
(* Claims about the replay of logs kept over several sessions.             *)

\* the positions i < j of two start entries of the project with no stop
\* entry of the project between them
TwoStarts(file, project) ==
  LET lines == RawLines(file) IN
  { pair \in (1..Len(lines)) \X (1..Len(lines)) :
      /\ pair[1] < pair[2]
      /\ IsEntryOf(lines[pair[1]], "start", project)
      /\ IsEntryOf(lines[pair[2]], "start", project)
      /\ \A k \in (pair[1] + 1)..(pair[2] - 1) : ~IsEntryOf(lines[k], "stop", project) }

\* the file as it stood when its line j was its last
UpToLine(file, j) == File(JoinLines(SubSeq(RawLines(file), 1, j)))

\* no later line is a JSON value that names the project
NothingFollows(file, j, project) ==
  \A k \in (j + 1)..Len(RawLines(file)) :
    ~(/\ JSONparses(RawLines(file)[k])
      /\ PropIs(JSONparse(RawLines(file)[k]), "project", project))

\* C26: when a log holds two start entries of one project with no stop of
\* that project between them, the later one replaces the earlier one as the
\* pending start: the active session is the later entry, and one stop that
\* follows closes the session altogether, the earlier start does not come
\* back.
C26_LaterStartReplaces ==
  /\ [](\A project \in Projects : \A pair \in TwoStarts(sessions, project) :
          LET later == JSONparse(RawLines(sessions)[pair[2]]) IN
          /\ StatusGetActiveSession(UpToLine(sessions, pair[2]), project) = later
          /\ StartGetActiveSession(UpToLine(sessions, pair[2]), project) = later
          /\ StopGetActiveSession(UpToLine(sessions, pair[2]), project) = later
          /\ NothingFollows(sessions, pair[2], project) =>
               StatusGetActiveSession(sessions, project) = later)
  /\ [][\A project \in Projects :
          (/\ StopAccepted(project)
           /\ TwoStarts(sessions, project) # {})
          => /\ EntryCount(sessions') = EntryCount(sessions) + 1
             /\ StatusGetActiveSession(sessions', project) = JNull
             /\ StartGetActiveSession(sessions', project) = JNull
             /\ StopGetActiveSession(sessions', project) = JNull]_vars

\* a stop was accepted for a project whose log held two different start
\* entries in a row, and no session is left
C26_Witness ==
  \E project \in Projects :
    /\ last.cmd = "stop"
    /\ last.dir = project
    /\ Accepted(last)
    /\ TypesOf(RawLines(sessions), project) = <<"start", "start", "stop">>
    /\ \E pair \in TwoStarts(sessions, project) :
         RawLines(sessions)[pair[1]] # RawLines(sessions)[pair[2]]
    /\ StatusGetActiveSession(sessions, project) = JNull

\* the line holds a JSON object that has a timestamp
IsStamped(line) ==
  /\ JSONparses(line)
  /\ JSONparse(line).t = "obj"
  /\ "timestamp" \in DOMAIN JSONparse(line).f

\* the instant given to line i of n: its position, counted from the top or
\* from the bottom
Restamp(order, i, n) == IF order = "ascending" THEN i ELSE n + 1 - i

\* the file with the timestamp of every stamped line replaced, in ascending
\* or in descending order of position
Retimed(file, order) ==
  LET lines == RawLines(file) IN
  [ exists |-> file.exists,
    text |-> JoinLines([ i \in 1..Len(lines) |->
               IF IsStamped(lines[i])
               THEN <<JSONstringify(JObj([JSONparse(lines[i]).f EXCEPT
                        !.timestamp = toISOString(Restamp(order, i, Len(lines)))]))>>
               ELSE lines[i] ]) ]

\* the position a replay's result has in the retimed file, 0 for no session
PositionIn(file, order, session) ==
  IF session = JNull THEN 0
  ELSE Restamp(order, getTime(session.f.timestamp), Len(RawLines(file)))

\* the replay depends on the order of the lines only: whichever timestamps
\* the entries carry, it returns the entry at the same position
SamePosition(file, project, plain, ascending, descending) ==
  IF ascending = JNull \/ ~IsValidDate(Prop(ascending, "timestamp"))
  THEN plain = ascending /\ descending = ascending
  ELSE LET pos == PositionIn(file, "ascending", ascending) IN
       /\ descending # JNull
       /\ IsValidDate(Prop(descending, "timestamp"))
       /\ PositionIn(file, "descending", descending) = pos
       /\ plain = JSONparse(RawLines(file)[pos])

\* C27: the active session depends on the order of the entries in the file
\* and never on their timestamps: with the timestamps of a log changed, to
\* chronological or to reverse order, each replay returns for every project
\* the entry at the same position.
C27_FileOrderNotTimestamps ==
  \A project \in Projects :
    /\ SamePosition(sessions, project,
                    StatusGetActiveSession(sessions, project),
                    StatusGetActiveSession(Retimed(sessions, "ascending"), project),
                    StatusGetActiveSession(Retimed(sessions, "descending"), project))
    /\ SamePosition(sessions, project,
                    StartGetActiveSession(sessions, project),
                    StartGetActiveSession(Retimed(sessions, "ascending"), project),
                    StartGetActiveSession(Retimed(sessions, "descending"), project))
    /\ SamePosition(sessions, project,
                    StopGetActiveSession(sessions, project),
                    StopGetActiveSession(Retimed(sessions, "ascending"), project),
                    StopGetActiveSession(Retimed(sessions, "descending"), project))

\* status reported the session of the last start in the file although an
\* earlier start of the project carries a later timestamp
C27_Witness ==
  \E pair \in TwoStarts(sessions, last.dir) :
    LET earlier == JSONparse(RawLines(sessions)[pair[1]])
        later == JSONparse(RawLines(sessions)[pair[2]])
    IN /\ last.cmd = "status"
       /\ Len(last.out) >= 3
       /\ getTime(later.f.timestamp) < getTime(earlier.f.timestamp)
       /\ NothingFollows(sessions, pair[2], last.dir)
       /\ last.out[1] = "Active session: \"" \o later.f.message \o "\""

\* lines that are valid JSON and are not shaped like a LogEntry: objects
\* with a project and a type and neither timestamp nor message, and values
\* that are no objects
UnshapedLines ==
  { <<JSONstringify(JObj([project |-> project, type |-> type]))>> :
      project \in Projects, type \in {"start", "stop"} }
  \cup { <<JSONstringify(JNull)>>, <<JSONstringify(JNum(5))>>,
         <<JSONstringify(JStr("start"))>>, <<JSONstringify(JArr(<<>>))>> }

\* C28: a log line that is valid JSON and is not shaped like a LogEntry (an
\* object with project and type and no timestamp or message, a value that
\* is no object) is skipped silently: placed at any line position of the
\* log it changes the active session of no project, for each replay.
C28_UnshapedLineSkipped ==
  sessions.exists =>
    \A project \in Projects :
      \A i \in 0..Len(RawLines(sessions)), line \in UnshapedLines :
        LET edited == InsertLine(sessions, i, line) IN
        /\ StatusGetActiveSession(edited, project) = StatusGetActiveSession(sessions, project)
        /\ StartGetActiveSession(edited, project) = StartGetActiveSession(sessions, project)
        /\ StopGetActiveSession(edited, project) = StopGetActiveSession(sessions, project)

----------------------------------------------------------------------------
(* Claims about sessions stamped ahead of the clock.                       *)

\* the session of the project is stamped later than the clock reads when
\* status has taken its readings
FutureDated(project) ==
  /\ ActiveEntry(sessions, project) # JNull
  /\ StartedAt(sessions, project) > now'

\* the global settings document sets a threshold below zero
NegativeThreshold ==
  /\ Defines(globalSettings, "orphanedSessionThreshold")
  /\ ValueIn(globalSettings, "orphanedSessionThreshold").n < 0

\* C29: a start stamped in the future never triggers the warning: for an
\* active session whose start is later than the current time status never
\* has the warning line, for every value of the configured threshold.
C29_FutureNeverWarned ==
  [][\A project \in Projects :
       (Invoked("status", project, "") /\ FutureDated(project))
       => /\ ~last'.threw
          /\ Len(last'.out) = 3]_vars

\* C29 as amended: a start stamped in the future never triggers the warning
\* for every configured threshold that is not below zero (no threshold and a
\* threshold of zero stand for 240 minutes).
C29_FutureNeverWarnedAboveZero ==
  [][\A project \in Projects :
       (Invoked("status", project, "") /\ FutureDated(project) /\ ~NegativeThreshold)
       => /\ ~last'.threw
          /\ Len(last'.out) = 3
          /\ IsPrefix("Duration: -", last'.out[2])]_vars

\* status reported a session stamped three minutes ahead of the clock, under
\* a threshold of one minute, without the warning
C29_Witness ==
  /\ last.cmd = "status"
  /\ last.dir = "/a"
  /\ last.out = <<"Active session: \"wip\"", "Duration: -3m", "Project: /a">>
  /\ Defines(globalSettings, "orphanedSessionThreshold")
  /\ ValueIn(globalSettings, "orphanedSessionThreshold") = JNum(1)
  /\ StartedAt(sessions, "/a") > now

----------------------------------------------------------------------------
(* Claims about the project copy that config set makes.                    *)

SettingKeys == {"k", "orphanedSessionThreshold"}

\* the document is an object that has this key and no other
HoldsOnly(file, key) ==
  /\ file.exists
  /\ JSONparses(file.text)
  /\ JSONparse(file.text).t = "obj"
  /\ DOMAIN JSONparse(file.text).f = {key}

\* the value config set stores for the raw values given to it here
StoredFor(raw) == IF raw = "300" THEN JNum(300) ELSE JStr(raw)

----------------------------------------------------------------------------
(* Claims about what config set does to the document it writes.            *)

\* the document exists and its text is JSON
Parseable(file) == file.exists /\ JSONparses(file.text)

\* the text of the document is one pretty-printed JSON value
PrettyPrinted(file) ==
  /\ file.exists
  /\ Len(file.text) = 1
  /\ file.text[1] = JSONstringifyPretty(JSONparse(file.text))

\* C31: config set k v on an existing settings document that parses as JSON
\* changes only key k: afterwards the document is pretty-printed JSON that
\* holds the stored value under k and, under every other key it had, the
\* value it had.
C31_SetChangesOnlyKey ==
  [][\A dir \in ConfigDirs, args \in ConfigArgs :
       (/\ Len(args) = 2
        /\ InvokedSet(dir, args[1], args[2])
        /\ Parseable(ProjectDoc(dir)))
       => /\ ~last'.threw
          /\ PrettyPrinted(ProjectDoc(dir)')
          /\ Defines(ProjectDoc(dir)', args[1])
          /\ ValueIn(ProjectDoc(dir)', args[1]) = StoredFor(args[2])
          /\ \A key \in OwnKeys(JSONparse(ProjectDoc(dir).text)) \ {args[1]} :
               /\ Defines(ProjectDoc(dir)', key)
               /\ ValueIn(ProjectDoc(dir)', key) = ValueIn(ProjectDoc(dir), key)
          /\ OwnKeys(JSONparse(ProjectDoc(dir)'.text))
               = OwnKeys(JSONparse(ProjectDoc(dir).text)) \cup {args[1]}]_vars

\* the message config set returns for the raw values given to it here
SetMessage(key, raw) == "Set project setting " \o key \o ": " \o JSONtext(StoredFor(raw))

\* C32: config set on a settings document that exists and does not parse as
\* JSON surfaces no error: it returns the normal Set message and replaces
\* the document with pretty-printed JSON of an object that holds exactly the
\* key being set, with the stored value.
C32_CorruptDocumentReplaced ==
  [][\A dir \in ConfigDirs, args \in ConfigArgs :
       (/\ Len(args) = 2
        /\ InvokedSet(dir, args[1], args[2])
        /\ ProjectDoc(dir).exists
        /\ ~JSONparses(ProjectDoc(dir).text))
       => /\ ~last'.threw
          /\ last'.out = <<SetMessage(args[1], args[2])>>
          /\ proc'.exit = 0
          /\ PrettyPrinted(ProjectDoc(dir)')
          /\ HoldsOnly(ProjectDoc(dir)', args[1])
          /\ ValueIn(ProjectDoc(dir)', args[1]) = StoredFor(args[2])]_vars

\* config set of the threshold in /a has just replaced a project document:
\* the document now holds the threshold 300 alone and the message is the
\* normal one
C32_Witness ==
  /\ last.cmd = "config"
  /\ last.dir = "/a"
  /\ last.args = <<"orphanedSessionThreshold", "300">>
  /\ last.out = <<"Set project setting orphanedSessionThreshold: 300">>
  /\ HoldsOnly(projectSettings["/a"], "orphanedSessionThreshold")
  /\ ValueIn(projectSettings["/a"], "orphanedSessionThreshold") = JNum(300)

----------------------------------------------------------------------------
(* Claims about the earlier config command, which falls back to the global *)
(* document.                                                               *)

\* C33: when the directory has no project settings document, config
\* <key> <value> writes the value into the global settings document,
\* creating the document and its directory if needed, leaves every project
\* document as it is, and reports Set project setting <key>: <value>.
C33_SetFallsBackToGlobal ==
  [][\A dir \in ConfigDirs, args \in ConfigArgs :
       (/\ Len(args) = 2
        /\ InvokedSet(dir, args[1], args[2])
        /\ ~ProjectDoc(dir).exists)
       => /\ ~last'.threw
          /\ last'.out = <<SetMessage(args[1], args[2])>>
          /\ GlobalDir \in dirs'
          /\ Defines(globalSettings', args[1])
          /\ ValueIn(globalSettings', args[1]) = StoredFor(args[2])
          /\ projectSettings' = projectSettings]_vars

----------------------------------------------------------------------------
(* Claims about the three copies of the log replay.                        *)

\* C34: the copies of the log replay in start, stop and status agree on
\* every log and project: status returns No active session exactly when
\* stop would return No active session to stop and exactly when start with
\* a non-blank message would be accepted.
C34_ReplayCopiesAgree ==
  /\ [](\A project \in Projects :
          /\ (StatusGetActiveSession(sessions, project) = JNull)
               <=> (StopGetActiveSession(sessions, project) = JNull)
          /\ (StopGetActiveSession(sessions, project) = JNull)
               <=> (StartGetActiveSession(sessions, project) = JNull))
  /\ [][\A project \in Projects :
          /\ Invoked("status", project, "")
             => ((last'.out = <<"No active session">>)
                   <=> (StopGetActiveSession(sessions, project) = JNull))
          /\ Invoked("stop", project, " wip ")
             => ((last'.out = <<"No active session to stop">>)
                   <=> (StartGetActiveSession(sessions, project) = JNull))
          /\ Invoked("start", project, " wip ")
             => ((sessions' # sessions)
                   <=> (StatusGetActiveSession(sessions, project) = JNull))]_vars

\* status of /a has just answered No active session on a log that is not
\* empty, and the copies of stop and of start find no session either
C34_Witness ==
  /\ last.cmd = "status"
  /\ last.dir = "/a"
  /\ last.out = <<"No active session">>
  /\ sessions.exists
  /\ Len(sessions.text) >= 4
  /\ StopGetActiveSession(sessions, "/a") = JNull
  /\ StartGetActiveSession(sessions, "/a") = JNull
  /\ StatusGetActiveSession(sessions, "/b") # JNull

----------------------------------------------------------------------------
(* Claims about the warning of status.                                     *)

\* the largest minute count a label can show here
MaxLabelMinutes == MaxNow \div MsPerMinute + MaxAheadHalfMinutes

\* C35: within one status call the label shown and the minute count compared
\* with the threshold describe the same instant: whenever the warning line
\* is emitted, the elapsed label printed in it is the label of a minute
\* count strictly greater than the threshold, also when the clock advances
\* during the call.
C35_WarningLabelAboveThreshold ==
  [][\A project \in Projects :
       (/\ Invoked("status", project, "")
        /\ ~last'.threw
        /\ Warned(last'))
       => LET threshold == orphanedThresholdOf(loadSettings(globalSettings)) IN
          \E m \in (threshold + 1)..MaxLabelMinutes :
            last'.out[4] = StatusWarning(LabelOf(m), threshold)]_vars

----------------------------------------------------------------------------
(* Claims about settings documents that are valid JSON and no objects.     *)

\* C36: status never raises because of the content of the global settings
\* document: when the document is valid JSON that is not an object (null, a
\* number, a string, an array), status returns its normal result and decides
\* the warning with the default threshold of 240 minutes.
C36_StatusToleratesSettings ==
  [][\A project \in Projects :
       (/\ Invoked("status", project, "")
        /\ Parseable(globalSettings)
        /\ JSONparse(globalSettings.text).t # "obj")
       => /\ ~last'.threw
          /\ proc'.exit = 0
          /\ ActiveEntry(sessions, project) = JNull => last'.out = <<"No active session">>
          /\ ActiveEntry(sessions, project) # JNull
             => (Warned(last') <=> SessionMinutes(project) > DefaultThreshold)]_vars

\* C37: config set never raises and always persists the key: when the
\* target document is valid JSON that is not an object (null, a number, a
\* string, an array), set returns the Set message and a config get of the
\* key that follows returns the value.
C37_SetToleratesDocument ==
  [][\A dir \in ConfigDirs, args \in ConfigArgs :
       (/\ Len(args) = 2
        /\ InvokedSet(dir, args[1], args[2])
        /\ Parseable(ProjectDoc(dir))
        /\ JSONparse(ProjectDoc(dir).text).t # "obj")
       => /\ ~last'.threw
          /\ last'.out = <<SetMessage(args[1], args[2])>>
          /\ getValue(ProjectDoc(dir)', args[1])
               = args[1] \o ": " \o JSONtext(StoredFor(args[2]))]_vars

----------------------------------------------------------------------------
(* Claims about the threshold status uses and the figure it shows.         *)

\* the value the global settings document gives the threshold is falsy
FalsyThreshold ==
  /\ Defines(globalSettings, "orphanedSessionThreshold")
  /\ ValueIn(globalSettings, "orphanedSessionThreshold")
       \in { JNum(0), JNull, JStr(""), JBool(FALSE) }

\* C38: a global orphanedSessionThreshold of 0, or of another falsy value
\* such as null or the empty string, is treated as not configured: status
\* decides the warning with 240 minutes and shows the four-hour figure, so a
\* threshold of 0 minutes is never in effect.
C38_FalsyThresholdIsDefault ==
  [][\A project \in Projects :
       (/\ Invoked("status", project, "")
        /\ FalsyThreshold
        /\ ActiveEntry(sessions, project) # JNull
        /\ \E skew \in ClockSkews : Status(project, skew))
       => /\ ~last'.threw
          /\ Warned(last') <=> SessionMinutes(project)' > DefaultThreshold
          /\ Warned(last')
             => last'.out[4] = StatusWarning(LabelOf(SessionMinutes(project)), DefaultThreshold)]_vars

\* with a threshold of 0 in the global settings, status of /a has reported a
\* session of one minute without a warning
C38_Witness ==
  /\ last.cmd = "status"
  /\ last.dir = "/a"
  /\ last.out = <<"Active session: \"wip\"", "Duration: 1m", "Project: /a">>
  /\ Defines(globalSettings, "orphanedSessionThreshold")
  /\ ValueIn(globalSettings, "orphanedSessionThreshold") = JNum(0)
  /\ SessionMinutes("/a") = 1

\* the threshold status uses: the number the global settings document
\* gives, or 240 when it gives none or a falsy value
ThresholdUsed ==
  IF Defines(globalSettings, "orphanedSessionThreshold") /\ ~FalsyThreshold
  THEN ValueIn(globalSettings, "orphanedSessionThreshold").n
  ELSE DefaultThreshold

\* floor(t / 60) without division, for a threshold that is not negative
HourFigure(t) == CHOOSE h \in 0..t : MinutesPerHour * h <= t /\ t < MinutesPerHour * (h + 1)

\* the text ends with these characters
EndsWith(text, tail) ==
  /\ Len(text) >= Len(tail)
  /\ SubSeq(text, Len(text) - Len(tail) + 1, Len(text)) = tail

\* C39: the hour figure in the status warning is floor(threshold / 60) of
\* the threshold actually used: 240 is shown as >4h threshold, 120 as
\* >2h threshold, and 90, which is not a multiple of 60, rounded down as
\* >1h threshold.
C39_HourFigureRoundsDown ==
  [][\A project \in Projects :
       (/\ Invoked("status", project, "")
        /\ Warned(last')
        /\ \E skew \in ClockSkews : Status(project, skew))
       => /\ EndsWith(last'.out[4],
                      " (>" \o ToString(HourFigure(ThresholdUsed)) \o "h threshold)")
          /\ ThresholdUsed = 240 => EndsWith(last'.out[4], " (>4h threshold)")
          /\ ThresholdUsed = 120 => EndsWith(last'.out[4], " (>2h threshold)")
          /\ ThresholdUsed = 90 => EndsWith(last'.out[4], " (>1h threshold)")]_vars

\* with a threshold of 90 minutes status of /a has warned about a session of
\* four hours and shown the figure of one hour
C39_Witness ==
  /\ last.cmd = "status"
  /\ last.dir = "/a"
  /\ Warned(last)
  /\ last.out[4] = "(!)  Warning: Session has been active for 4h 0m (>1h threshold)"
  /\ Defines(globalSettings, "orphanedSessionThreshold")
  /\ ValueIn(globalSettings, "orphanedSessionThreshold") = JNum(90)

----------------------------------------------------------------------------
(* Claims about the order of the file operations of start.                 *)

\* the invocation is a start that was found acceptable: its message is not
\* blank and its replay found no session, so its log entry is made
StartAccepted(self) ==
  /\ self.cmd = "start"
  /\ ~MessageMissing(self.message)
  /\ self.logEntry # JNull

\* the invocation is a start that has returned without being accepted
StartTurnedAway(self) ==
  /\ self.cmd = "start"
  /\ self.pc = "done"
  /\ self.result.out # <<"Started session: \"" \o self.message \o "\"">>

\* C40: in every accepted start the global directory is ensured before the
\* session log is written, and only an accepted start ensures a directory:
\* a start that is rejected because the project is active, or invalid
\* because its message is blank, ends without having created a directory or
\* written a file.
C40_EnsureBeforeWrite ==
  /\ [](\A p \in Pids :
          (running[p].cmd = "start" /\ running[p].pc \in {"exists", "read", "write"})
          => GlobalDir \in dirs)
  /\ [][\A p \in Pids :
          LET self == running[p] IN
          /\ (self.cmd = "start" /\ self.pc = "write" /\ running'[p].pc = "done")
             => GlobalDir \in dirs
          /\ running'[p].pc = "ensureDir" => StartAccepted(running'[p])
          /\ (running'[p] # self /\ StartTurnedAway(running'[p]))
             => /\ self.pc \in {"idle", "replay"}
                /\ UNCHANGED <<sessions, dirs, globalSettings, projectSettings>>]_vars
  /\ [][/\ dirs' # dirs
           => \E p \in Pids : /\ running[p].pc = "ensureDir"
                              /\ StartAccepted(running[p])
                              /\ dirs' = dirs \cup {GlobalDir}
        /\ sessions' # sessions
           => \E p \in Pids : /\ running[p].pc = "write"
                              /\ running[p].cmd = "start" => StartAccepted(running[p])]_vars

\* an accepted start has made the directory and written the first entry of
\* the log, and a start with a blank message has ended beside it
C40_Witness ==
  /\ StartAccepted(running[1])
  /\ running[1].pc = "done"
  /\ running[1].result.out = <<"Started session: \"" \o running[1].message \o "\"">>
  /\ StartTurnedAway(running[2])
  /\ MessageMissing(running[2].message)
  /\ GlobalDir \in dirs
  /\ sessions.exists
  /\ Len(sessions.text) = 2

====
